---------------------------- MODULE Spec2Model ----------------------------
(* A model of nipype/interfaces/base.py: the Bunch of inputs of a          *)
(* CommandLine interface, the mandatory-input check, the synthesis of the  *)
(* argument list from in_spec (_parse_inputs), cmdline and run.            *)
(*                                                                         *)
(* Python strings are sequences of one-character strings, so that find,    *)
(* endswith, replace, % and ' '.join are computed, not assumed.            *)
EXTENDS Integers, Sequences, FiniteSets, TLC

\* ------------------------------------------------------------------ bounds
\* Longest list a caller assigns to a list-valued input.
MaxListLen == 3
\* Largest return code the child process exits with.
MaxReturnCode == 1
\* Longest list and largest number of rows of a job descriptor.
MaxJobLen == 2

\* ----------------------------------------------------------------- strings
\* The characters the model's strings use, in ASCII order.
Ascii ==
  << " ", "%", "-", ".", "0", "1", "2", "3", "4", "5", "6", "7", "8", "9",
     "F", "N", "T", "[", "]", "a", "b", "c", "d", "e", "f", "g", "h", "i",
     "k", "l", "m", "n", "o", "r", "s", "t", "u", "v", "w", "x", "y", "z" >>

\* ord(c), up to the order-preserving renumbering of the characters used.
OrdTable ==
  [c \in {Ascii[i] : i \in 1..Len(Ascii)} |->
     CHOOSE i \in 1..Len(Ascii) : Ascii[i] = c]
Ord(c) == OrdTable[c]

\* Python's < on str: lexicographic by code point, a proper prefix is smaller.
RECURSIVE StrLessFrom(_, _, _)
StrLessFrom(a, b, i) ==
  IF i > Len(b) THEN FALSE
  ELSE IF i > Len(a) THEN TRUE
  ELSE IF a[i] = b[i] THEN StrLessFrom(a, b, i + 1)
  ELSE Ord(a[i]) < Ord(b[i])

StrLess(a, b) == StrLessFrom(a, b, 1)

\* str.find(sub) # -1
RECURSIVE StrContains(_, _)
StrContains(s, sub) ==
  IF Len(s) < Len(sub) THEN FALSE
  ELSE IF SubSeq(s, 1, Len(sub)) = sub THEN TRUE
  ELSE StrContains(Tail(s), sub)

\* str.endswith(suffix)
EndsWith(s, suffix) ==
  /\ Len(s) >= Len(suffix)
  /\ SubSeq(s, Len(s) - Len(suffix) + 1, Len(s)) = suffix

\* str.replace(old, ''): every non-overlapping occurrence, left to right.
RECURSIVE StrRemove(_, _)
StrRemove(s, old) ==
  IF Len(s) < Len(old) THEN s
  ELSE IF SubSeq(s, 1, Len(old)) = old
       THEN StrRemove(SubSeq(s, Len(old) + 1, Len(s)), old)
       ELSE << Head(s) >> \o StrRemove(Tail(s), old)

\* ' '.join(parts)
RECURSIVE JoinSpace(_)
JoinSpace(parts) ==
  IF parts = << >> THEN << >>
  ELSE IF Len(parts) = 1 THEN parts[1]
  ELSE parts[1] \o << " " >> \o JoinSpace(Tail(parts))

Digits == << "0", "1", "2", "3", "4", "5", "6", "7", "8", "9" >>

\* The decimal digits of a natural number.
RECURSIVE Dec(_)
Dec(n) == IF n < 10 THEN << Digits[n + 1] >>
          ELSE Dec(n \div 10) \o << Digits[(n % 10) + 1] >>

\* ------------------------------------------------------------------ values
\* A Python value: None, a bool, an int, a str or a list. One record shape
\* for all, the fields a kind does not use held at a fixed filler.
Val(t, b, n, s, l) == [t |-> t, b |-> b, n |-> n, s |-> s, l |-> l]
None == Val("none", FALSE, 0, << >>, << >>)
PyBool(b) == Val("bool", b, 0, << >>, << >>)
PyInt(n) == Val("int", FALSE, n, << >>, << >>)
PyString(s) == Val("str", FALSE, 0, s, << >>)
\* A unicode string of Python 2, u'...': a string that is no instance of str.
PyUnicode(s) == Val("unicode", FALSE, 0, s, << >>)
PyList(l) == Val("list", FALSE, 0, << >>, l)
PyTuple(l) == Val("tuple", FALSE, 0, << >>, l)
\* The empty dict as a value of a field.
PyDict == Val("dict", FALSE, 0, << >>, << >>)

\* bool(value), the test of `if value:`
Truthy(v) ==
  CASE v.t = "none" -> FALSE
    [] v.t = "bool" -> v.b
    [] v.t = "int"  -> v.n # 0
    [] v.t \in {"str", "unicode"} -> v.s # << >>
    [] v.t = "list" -> v.l # << >>

\* str(value) for the scalars ('%s' % value)
PyStr(v) ==
  CASE v.t = "none" -> << "N", "o", "n", "e" >>
    [] v.t = "bool" -> IF v.b THEN << "T", "r", "u", "e" >>
                              ELSE << "F", "a", "l", "s", "e" >>
    [] v.t = "int"  -> IF v.n < 0 THEN << "-" >> \o Dec(-v.n) ELSE Dec(v.n)
    [] v.t \in {"str", "unicode"} -> v.s
    [] v.t = "list" -> << "[", "]" >>

\* ---------------------------------------------------------------- template
\* The outcome of `template % args`: the string, or the exception raised.
Formatted(s) == [err |-> "", s |-> s]
FormatError(e) == [err |-> e, s |-> << >>]

\* Python's % operator for the conversions %s, %d and %%, args a tuple of
\* values: each conversion consumes one argument; too few arguments, a %d
\* given a non-number, and arguments left over are TypeErrors; a lone
\* trailing % or an unknown conversion is a ValueError.
RECURSIVE PercentFormat(_, _, _)
PercentFormat(tpl, args, acc) ==
  IF tpl = << >>
  THEN IF args = << >> THEN Formatted(acc) ELSE FormatError("TypeError")
  ELSE IF Head(tpl) # "%"
  THEN PercentFormat(Tail(tpl), args, acc \o << Head(tpl) >>)
  ELSE IF Len(tpl) = 1 THEN FormatError("ValueError")
  ELSE LET conv == tpl[2]
           rest == SubSeq(tpl, 3, Len(tpl))
       IN  IF conv = "%" THEN PercentFormat(rest, args, acc \o << "%" >>)
           ELSE IF conv \notin {"s", "d"} THEN FormatError("ValueError")
           ELSE IF args = << >> THEN FormatError("TypeError")
           ELSE IF conv = "d" /\ Head(args).t \notin {"int", "bool"}
                THEN FormatError("TypeError")
           ELSE IF conv = "d" /\ Head(args).t = "bool"
                THEN PercentFormat(rest, Tail(args),
                                   acc \o (IF Head(args).b THEN << "1" >>
                                                           ELSE << "0" >>))
           ELSE PercentFormat(rest, Tail(args), acc \o PyStr(Head(args)))

\* ----------------------------------------------------------------- in_spec
\* One in_spec entry ('one line desc', optional, default, mapping, position):
\* position is << >> for a 4-tuple and << p >> for a 5-tuple.
Entry(optional, default, argstr, position) ==
  [optional |-> optional, default |-> default, argstr |-> argstr,
   position |-> position]

s_args == << "a", "r", "g", "s" >>
s_in   == << "i", "n" >>
s_ref  == << "r", "e", "f" >>
s_out  == << "o", "u", "t" >>
s_msk  == << "m", "s", "k" >>
s_flag == << "f", "l", "a", "g" >>
s_id   == << "i", "d" >>
s_dim  == << "d", "i", "m" >>
s_verb == << "v", "e", "r", "b" >>
s_win  == << "w", "i", "n" >>
s_alt  == << "a", "l", "t" >>
s_zz   == << "z", "z" >>

\* CommandLine.in_spec itself.
BaseSpec == (s_args :> Entry(TRUE, None, << "%", "s" >>, << >>))

\* An in_spec of a subclass, in the documented 5-tuple form: a mandatory
\* input file first, an optional reference at place 2, the output last, a
\* mask before it, and two options without a position (a bare flag and a
\* repeatable option).
ToolSpec ==
  (s_in :> Entry(FALSE, None, << "%", "s" >>, << 0 >>))
  @@ (s_ref :> Entry(TRUE, None, << "-", "r", " ", "%", "s" >>, << 2 >>))
  @@ (s_out :> Entry(TRUE, None, << "%", "s" >>, << -1 >>))
  @@ (s_msk :> Entry(TRUE, None, << "-", "m", " ", "%", "s" >>, << -2 >>))
  @@ (s_flag :> Entry(TRUE, None, << "-", "-", "f", "l", "a", "g" >>, << >>))
  @@ (s_id :> Entry(TRUE, None,
                    << "-", "-", "i", "d", " ", "%", "d", ".", ".", "." >>,
                    << >>))

\* A second subclass in_spec: two mandatory inputs, a positioned bare flag,
\* a template with two conversions and an option with a default.
ToolSpec2 ==
  (s_in :> Entry(FALSE, None, << "%", "s" >>, << 1 >>))
  @@ (s_dim :> Entry(FALSE, None, << "-", "d", " ", "%", "d" >>, << >>))
  @@ (s_verb :> Entry(TRUE, None, << "-", "v" >>, << 0 >>))
  @@ (s_win :> Entry(TRUE, PyList(<< PyInt(1), PyInt(2) >>),
                     << "-", "w", " ", "%", "d", "x", "%", "d" >>, << >>))
  @@ (s_out :> Entry(TRUE, None, << "%", "s" >>, << -1 >>))

\* A third subclass in_spec: two inputs declared at the same place and a
\* repeatable option with a position.
ToolSpec3 ==
  (s_in :> Entry(FALSE, None, << "%", "s" >>, << 0 >>))
  @@ (s_alt :> Entry(TRUE, None, << "%", "s" >>, << 0 >>))
  @@ (s_id :> Entry(TRUE, None,
                    << "-", "-", "i", "d", " ", "%", "d", ".", ".", "." >>,
                    << 1 >>))

\* The classes of interface and the in_spec attribute of each.
Classes == {"CommandLine", "Tool", "Tool2", "Tool3"}
InSpecOf ==
  [c \in Classes |->
     CASE c = "CommandLine" -> BaseSpec
       [] c = "Tool" -> ToolSpec
       [] c = "Tool2" -> ToolSpec2
       [] c = "Tool3" -> ToolSpec3]

\* The list [1, .., k] and the list [k, .., 1].
Ramp(k) == [i \in 1..k |-> PyInt(i)]
Down(k) == [i \in 1..k |-> PyInt(k + 1 - i)]
Lists == {PyList(Ramp(k)) : k \in (0..MaxListLen) \ {1}}
           \cup {PyList(Down(MaxListLen))}

s_x == << "x" >>

\* The values a caller gives an input, by the kind of its template: the unset
\* value, well-typed values, a falsy one and an ill-typed one.
Candidates(spec, name) ==
  IF name \notin DOMAIN spec THEN {None, PyInt(1)}
  ELSE LET argstr == spec[name].argstr IN
    IF ~StrContains(argstr, << "%" >>)
      THEN {None, PyBool(TRUE), PyBool(FALSE), PyString(<< "y" >>)}
    ELSE IF EndsWith(argstr, << ".", ".", "." >>)
      THEN {None, PyInt(7), PyString(s_x)} \cup Lists
    ELSE IF StrContains(argstr, << "x" >>)
      THEN {None, PyInt(1), PyList(Ramp(1)), PyList(Ramp(2))}
    ELSE IF StrContains(argstr, << "%", "d" >>)
      THEN {None, PyInt(0), PyInt(3), PyString(s_x)}
    ELSE IF name = s_args
      THEN {None, PyString(<< "f", "o", "o" >>),
            PyList(<< PyString(<< "-", "l" >>), PyString(<< "-", "t" >>) >>)}
    ELSE IF spec[name].optional
      THEN {None, PyString(s_x)}
    ELSE {None, PyString(s_x), PyInt(0)}

\* The names a caller assigns: the fields of in_spec and one it does not hold.
Names(spec) == DOMAIN spec \cup {s_zz}

\* The base commands a CommandLine is built with: a command, a command
\* that carries its arguments, and the default of the constructor, None.
Commands(spec) ==
  IF spec = BaseSpec
  THEN { PyString(<< "e", "c", "h", "o" >>),
         PyString(<< "e", "c", "h", "o", " ", "f", "o", "o" >>), None }
  ELSE { PyString(<< "t", "o", "o", "l" >>) }

\* The skip arguments _parse_inputs is called with.
SkipSets == { {}, {s_zz, s_in, s_args} }

\* ------------------------------------------------------------------- Bunch
Reverse(s) == [i \in 1..Len(s) |-> s[Len(s) + 1 - i]]

\* The order in which a dict yields its keys follows their hashes and is
\* not the caller's to choose: here one of two orders of all the keys.
HashOrder ==
  << s_out, s_flag, s_zz, s_in, s_win, s_args, s_msk, s_alt, s_id, s_verb,
     s_ref, s_dim >>
HashOrders == {HashOrder, Reverse(HashOrder)}

\* Bunch.items(): the keys of __dict__ in the dict's order.
items(bunch, order) == SelectSeq(order, LAMBDA k : k \in DOMAIN bunch)

\* Bunch.update(**kwargs): existing keys overwritten, new keys created.
update(bunch, kwargs) ==
  [k \in DOMAIN bunch \cup DOMAIN kwargs |->
     IF k \in DOMAIN kwargs THEN kwargs[k] ELSE bunch[k]]

\* The empty dict.
EmptyDict == [k \in {} |-> None]

\* BaseInterface.__init__: every in_spec field at its default, then the
\* keyword inputs on top.
init_inputs(spec, kwargs) ==
  update([k \in DOMAIN spec |-> spec[k].default], kwargs)

\* self._mandatory_args
mandatory_args(spec) == {k \in DOMAIN spec : ~spec[k].optional}

\* ------------------------------------------------- _check_mandatory_inputs
\* The keys the check counts as provided.
inkeys(bunch) == {k \in DOMAIN bunch : Truthy(bunch[k])}

\* The outcome of _check_mandatory_inputs: whether ValueError is raised and
\* the names printed as "Mandatory arg: %s not provided".
check_mandatory_inputs(spec, bunch) ==
  LET mand == mandatory_args(spec)
      keys == inkeys(bunch)
  IN  IF mand = {} THEN [raised |-> FALSE, missing |-> {}]
      ELSE IF keys = {} THEN [raised |-> TRUE, missing |-> mand]
      ELSE LET miss == {arg \in mand : arg \notin keys}
           IN  [raised |-> miss # {}, missing |-> miss]



\* ----------------------------------------------------------- _parse_inputs
\* _convert_inputs: the base class returns the value as it is.
convert_inputs(opt, val) == val

\* The (opt, value) pairs kept by the first loop, in the order items()
\* yields them: not skipped, not None.
RECURSIVE collect_inputs(_, _, _)
collect_inputs(order, bunch, skip) ==
  IF order = << >> THEN << >>
  ELSE LET opt == Head(order)
           value == convert_inputs(opt, bunch[opt])
           rest == collect_inputs(Tail(order), bunch, skip)
       IN  IF opt \notin skip /\ value # None
           THEN << [opt |-> opt, value |-> value] >> \o rest
           ELSE rest

\* list.insert of one pair into a list sorted by opt.
RECURSIVE insort(_, _)
insort(pair, sorted) ==
  IF sorted = << >> THEN << pair >>
  ELSE IF StrLess(pair.opt, Head(sorted).opt) THEN << pair >> \o sorted
  ELSE << Head(sorted) >> \o insort(pair, Tail(sorted))

\* sorted_inputs without the sort: the pairs as items() yielded them.
unsorted_inputs(pairs) == pairs

\* inputs = sorted(inputs): the keys are distinct, so the order is by key.
RECURSIVE sorted_inputs(_)
sorted_inputs(pairs) ==
  IF pairs = << >> THEN << >>
  ELSE insort(Head(pairs), sorted_inputs(Tail(pairs)))

\* What the formatting of one option leaves in val2append: a list of
\* strings, or None (isnone), or the exception raised on the way.
Appended(val) == [exc |-> "", isnone |-> FALSE, val |-> val]
NotAppended == [exc |-> "", isnone |-> TRUE, val |-> << >>]
Raised(e) == [exc |-> e, isnone |-> TRUE, val |-> << >>]

\* format_flag appending the flag for any bool.
format_flag_any_bool(argstr, value) ==
  IF value.t = "bool" THEN Appended(<< argstr >>) ELSE Raised("TypeError")

\* argstr.find('%') == -1: a Boolean option. `value is True` is an identity
\* test: only the bool True passes it, only the bool False is let through.
format_flag(argstr, value) ==
  IF value = PyBool(TRUE) THEN Appended(<< argstr >>)
  ELSE IF value # PyBool(FALSE) THEN Raised("TypeError")
  ELSE NotAppended

\* val2append.append(f) for the outcome f of one `template % args`: an
\* exception of the formatting leaves the try block.
append_formatted(val2append, f) ==
  IF f.err # "" THEN Raised(f.err) ELSE Appended(val2append.val \o << f.s >>)

\* val2append.append(newargstr % val) for each val of value, in order.
RECURSIVE format_each(_, _, _)
format_each(newargstr, values, val2append) ==
  IF values = << >> \/ val2append.exc # "" THEN val2append
  ELSE format_each(newargstr, Tail(values),
                   append_formatted(val2append,
                                    PercentFormat(newargstr,
                                                  << Head(values) >>, << >>)))

\* The elements of a repeatable option: a value that is no list is made
\* the one-element list [value].
as_list(value) == IF value.t = "list" THEN value.l ELSE << value >>

\* format_repeat with the elements formatted into one token.
format_repeat_grouped(argstr, value) ==
  LET each == format_each(StrRemove(argstr, << ".", ".", "." >>),
                          as_list(value), Appended(<< >>))
  IN  IF each.exc # "" THEN each ELSE Appended(<< JoinSpace(each.val) >>)

\* argstr.endswith('...'): a repeatable option.
format_repeat(argstr, value) ==
  format_each(StrRemove(argstr, << ".", ".", "." >>), as_list(value),
              Appended(<< >>))

\* A list value: argstr % tuple(value); any other value: argstr % value.
format_plain(argstr, value) ==
  append_formatted(Appended(<< >>),
                   PercentFormat(argstr, as_list(value), << >>))

\* The branches on the template, in the order of the code.
format_option(argstr, value) ==
  IF ~StrContains(argstr, << "%" >>) THEN format_flag(argstr, value)
  ELSE IF EndsWith(argstr, << ".", ".", "." >>) THEN format_repeat(argstr, value)
  ELSE format_plain(argstr, value)

\* A token of the argument list, with the option it was formatted from.
Token(opt, text) == [field |-> opt, text |-> text]
RECURSIVE Tokens(_, _)
Tokens(opt, texts) ==
  IF texts = << >> THEN << >>
  ELSE << Token(opt, Head(texts)) >> \o Tokens(opt, Tail(texts))

\* The locals of the second loop: allargs, preargs, postargs, the options a
\* warning was issued for, and the exception that left the loop.
ParseState(allargs, preargs, postargs, warned, exc) ==
  [allargs |-> allargs, preargs |-> preargs, postargs |-> postargs,
   warned |-> warned, exc |-> exc]

EmptyArgs == [p \in {} |-> Token(<< >>, << >>)]

\* dict[key] = value
setitem(dict, key, value) ==
  [k \in DOMAIN dict \cup {key} |-> IF k = key THEN value ELSE dict[k]]

\* The placement of one formatted option: preargs[pos] or postargs[pos]
\* takes val2append[0], allargs takes all of val2append. Subscripting None
\* and extending by None are TypeErrors; [][0] is an IndexError.
place_option(st, opt, position, fmt) ==
  IF fmt.exc # "" THEN [st EXCEPT !.exc = fmt.exc]
  ELSE IF position # << >>
  THEN IF fmt.isnone THEN [st EXCEPT !.exc = "TypeError"]
       ELSE IF fmt.val = << >> THEN [st EXCEPT !.exc = "IndexError"]
       ELSE IF position[1] >= 0
            THEN [st EXCEPT !.preargs =
                    setitem(st.preargs, position[1], Token(opt, fmt.val[1]))]
            ELSE [st EXCEPT !.postargs =
                    setitem(st.postargs, position[1], Token(opt, fmt.val[1]))]
  ELSE IF fmt.isnone THEN [st EXCEPT !.exc = "TypeError"]
       ELSE [st EXCEPT !.allargs = st.allargs \o Tokens(opt, fmt.val)]

\* except TypeError: warn('Option %s failed to format'): the turn leaves the
\* locals as they were before it, and the loop goes on.
except_TypeError(st, opt, out) ==
  IF out.exc = "TypeError"
  THEN [st EXCEPT !.warned = st.warned \o << opt >>]
  ELSE out

\* parse_option with the KeyError warned about and not raised again.
parse_option_warn_only(spec, st, opt, value) ==
  IF opt \notin DOMAIN spec
  THEN [st EXCEPT !.warned = st.warned \o << opt >>]
  ELSE except_TypeError(st, opt,
         place_option(st, opt, spec[opt].position,
                      format_option(spec[opt].argstr, value)))

\* One turn of the second loop, try block and handlers: a KeyError (opt not
\* in in_spec) is warned about and raised again, a TypeError is warned about
\* and the loop goes on, any other exception leaves the loop.
parse_option(spec, st, opt, value) ==
  IF opt \notin DOMAIN spec
  THEN [st EXCEPT !.warned = st.warned \o << opt >>, !.exc = "KeyError"]
  ELSE except_TypeError(st, opt,
         place_option(st, opt, spec[opt].position,
                      format_option(spec[opt].argstr, value)))

RECURSIVE parse_loop(_, _, _)
parse_loop(spec, st, pairs) ==
  IF pairs = << >> \/ st.exc # "" THEN st
  ELSE parse_loop(spec,
                  parse_option(spec, st, Head(pairs).opt, Head(pairs).value),
                  Tail(pairs))

\* list_insert one place too far.
list_insert_after(list, index, x) ==
  IF index + 1 >= Len(list) THEN Append(list, x)
  ELSE SubSeq(list, 1, index + 1) \o << x >>
         \o SubSeq(list, index + 2, Len(list))

\* list.insert(index, x) for index >= 0: before the element at index, at
\* the end when the list is shorter.
list_insert(list, index, x) ==
  IF index >= Len(list) THEN Append(list, x)
  ELSE SubSeq(list, 1, index) \o << x >> \o SubSeq(list, index + 1, Len(list))

\* sorted(d.items()) of a dict with integer keys: its keys ascending.
RECURSIVE sorted_positions(_)
sorted_positions(keys) ==
  IF keys = {} THEN << >>
  ELSE LET k == CHOOSE x \in keys : \A y \in keys : x <= y
       IN  << k >> \o sorted_positions(keys \ {k})

\* for key, value in sorted(preargs.items()): allargs.insert(key, value)
RECURSIVE insert_preargs(_, _, _)
insert_preargs(allargs, preargs, keys) ==
  IF keys = << >> THEN allargs
  ELSE insert_preargs(list_insert(allargs, Head(keys), preargs[Head(keys)]),
                      preargs, Tail(keys))

\* for key, value in sorted(postargs.items()): allargs.append(value)
RECURSIVE append_postargs(_, _, _)
append_postargs(allargs, postargs, keys) ==
  IF keys = << >> THEN allargs
  ELSE append_postargs(Append(allargs, postargs[Head(keys)]),
                       postargs, Tail(keys))

\* place_args with the two final loops in the other order.
place_args_swapped(st) ==
  insert_preargs(
    append_postargs(st.allargs, st.postargs,
                    sorted_positions(DOMAIN st.postargs)),
    st.preargs, sorted_positions(DOMAIN st.preargs))

\* The list the two final loops leave in allargs.
place_args(st) ==
  append_postargs(
    insert_preargs(st.allargs, st.preargs,
                   sorted_positions(DOMAIN st.preargs)),
    st.postargs, sorted_positions(DOMAIN st.postargs))

\* What a call returns or raises: exc is "" and tokens the returned list,
\* or exc names the exception and nothing is returned. missing and warned
\* are what the call printed and warned about.
Outcome(exc, tokens, missing, warned) ==
  [exc |-> exc, tokens |-> tokens, missing |-> missing, warned |-> warned]

\* What _parse_inputs returns or raises, chk being the outcome of
\* _check_mandatory_inputs and st the locals the second loop leaves.
parse_outcome(chk, st) ==
  IF chk.raised THEN Outcome("ValueError", << >>, chk.missing, << >>)
  ELSE IF st.exc # "" THEN Outcome(st.exc, << >>, {}, st.warned)
  ELSE Outcome("", place_args(st), {}, st.warned)

\* _parse_inputs(skip), the dict of the inputs being in hash order `order`.
parse_inputs(spec, bunch, skip, order) ==
  parse_outcome(
    check_mandatory_inputs(spec, bunch),
    parse_loop(spec, ParseState(<< >>, EmptyArgs, EmptyArgs, << >>, ""),
               sorted_inputs(collect_inputs(items(bunch, order), bunch, skip))))



\* --------------------------------------------------------- _get_bunch_hash
\* The filesystem is a function from the paths of the existing regular
\* files to their bytes.

\* is_container(item): whether the item has __iter__, which lists, tuples
\* and dicts have and strings and numbers have not.
is_container(v) == v.t \in {"list", "tuple", "dict"}

\* md5(data).hexdigest(), taken as collision-free: the data under a tag.
md5hex(data) == << "m", "d", "5", ":" >> \o data

\* os.path.isfile(item): a TypeError for an item that is no string.
isfile(files, item) ==
  IF item.t # "str" THEN "TypeError"
  ELSE IF item.s \in DOMAIN files THEN "yes" ELSE "no"

\* len(val) == 0 for a container that is no dict.
is_empty(val) == is_container(val) /\ val.t # "dict" /\ val.l = << >>

\* The item of a field the first loop tests: None for a dict, val[0] for
\* any other container, the value itself otherwise.
first_item(val) ==
  IF ~is_container(val) THEN val
  ELSE IF val.t = "dict" THEN None
  ELSE val.l[1]

\* find_infiles with the empty containers passed over.
RECURSIVE find_infiles_skip_empty(_, _, _, _)
find_infiles_skip_empty(keys, bunch, files, infile_list) ==
  IF keys = << >> THEN [exc |-> "", infile_list |-> infile_list]
  ELSE find_infiles_skip_empty(
         Tail(keys), bunch, files,
         IF ~is_empty(bunch[Head(keys)])
            /\ isfile(files, first_item(bunch[Head(keys)])) = "yes"
         THEN Append(infile_list, Head(keys))
         ELSE infile_list)

\* The first loop of _get_bunch_hash over self.items(): an empty container
\* raises AttributeError; a field whose item is an existing file joins
\* infile_list; a TypeError of the test passes the field over.
RECURSIVE find_infiles(_, _, _, _)
find_infiles(keys, bunch, files, infile_list) ==
  IF keys = << >> THEN [exc |-> "", infile_list |-> infile_list]
  ELSE IF is_empty(bunch[Head(keys)])
  THEN [exc |-> "AttributeError", infile_list |-> << >>]
  ELSE find_infiles(
         Tail(keys), bunch, files,
         IF isfile(files, first_item(bunch[Head(keys)])) = "yes"
         THEN Append(infile_list, Head(keys))
         ELSE infile_list)

\* md5hex of the bytes of afile read to the end, or None when afile is no
\* existing regular file.
file_md5hex(files, afile) ==
  IF afile.s \in DOMAIN files THEN PyString(md5hex(files[afile.s])) ELSE None

\* The loop of _hash_infile: (afile, md5hex) appended for each afile of
\* stuff; os.path.isfile raises a TypeError for an afile that is no string.
RECURSIVE hash_each(_, _, _)
hash_each(stuff, files, file_list) ==
  IF stuff = << >> THEN [exc |-> "", val |-> PyList(file_list)]
  ELSE IF Head(stuff).t # "str" THEN [exc |-> "TypeError", val |-> None]
  ELSE hash_each(Tail(stuff), files,
                 Append(file_list,
                        PyTuple(<< Head(stuff),
                                   file_md5hex(files, Head(stuff)) >>)))

\* _hash_infile(adict, key), stuff being adict[key].
hash_infile(stuff, files) ==
  hash_each(IF is_container(stuff) THEN stuff.l ELSE << stuff >>, files,
            << >>)

\* [val[1] for val in dict_withhash[item]]
digests(file_list) ==
  PyList([i \in 1..Len(file_list.l) |-> file_list.l[i].l[2]])

\* ', '.join(parts)
RECURSIVE JoinComma(_)
JoinComma(parts) ==
  IF parts = << >> THEN << >>
  ELSE IF Len(parts) = 1 THEN parts[1]
  ELSE parts[1] \o << ",", " " >> \o JoinComma(Tail(parts))

\* repr(value)
RECURSIVE PyRepr(_)
PyRepr(v) ==
  CASE v.t = "str"   -> << "'" >> \o v.s \o << "'" >>
    [] v.t = "list"  ->
         << "[" >> \o JoinComma([i \in 1..Len(v.l) |-> PyRepr(v.l[i])])
                   \o << "]" >>
    [] v.t = "tuple" ->
         << "(" >> \o JoinComma([i \in 1..Len(v.l) |-> PyRepr(v.l[i])])
                   \o (IF Len(v.l) = 1 THEN << ",", ")" >> ELSE << ")" >>)
    [] v.t = "dict"  -> << "{", "}" >>
    [] OTHER         -> PyStr(v)

\* str(sorted(dict_nofilename.items())): the (key, value) tuples in the
\* order of the keys, as the repr of the list.
sorted_dict(pairs) ==
  PyRepr(PyList([i \in 1..Len(pairs) |->
                   PyTuple(<< PyString(pairs[i].opt), pairs[i].value >>)]))

\* dict_nofilename.items(): the fields of infile_list reduced to their
\* digests, every other field as it is.
nofilename_items(keys, dict_withhash, infile_list) ==
  [i \in 1..Len(keys) |->
     [opt |-> keys[i],
      value |-> IF \E j \in 1..Len(infile_list) : infile_list[j] = keys[i]
                THEN digests(dict_withhash[keys[i]])
                ELSE dict_withhash[keys[i]]]]

\* What _get_bunch_hash returns or raises: exc is "" and dict_withhash and
\* hashvalue are the pair returned, or exc names the exception.
HashOutcome(exc, dict_withhash, hashvalue) ==
  [op |-> "hash", exc |-> exc, dict_withhash |-> dict_withhash,
   hashvalue |-> hashvalue, shares |-> {}]

\* dictcopy as a copy of the dict alone, dict(self.__dict__): the lists it
\* holds are the lists of the Bunch.
dictcopy_shallow(bunch) ==
  [dict |-> bunch, shares |-> {k \in DOMAIN bunch : bunch[k].t = "list"}]

\* Bunch.dictcopy(): deepcopy(self.__dict__), a dict that shares no object
\* with the Bunch. shares names the keys whose value is an object of the
\* Bunch.
dictcopy(bunch) == [dict |-> bunch, shares |-> {}]

\* What the caller holds of a returned dict: the keys of the copy that
\* _get_bunch_hash has not given a new value still name the copy's objects.
returned_dict(out, bunch, copy) ==
  IF out.exc # "" THEN out
  ELSE [out EXCEPT !.shares =
          {k \in copy.shares : out.dict_withhash[k] = bunch[k]}]

\* The second loop of _get_bunch_hash and the return: hashed holds, for
\* each field, the outcome of _hash_infile or the value as it is.
hash_outcome(keys, found, hashed) ==
  IF found.exc # "" THEN HashOutcome(found.exc, << >>, << >>)
  ELSE IF \E k \in DOMAIN hashed : hashed[k].exc # ""
  THEN HashOutcome("TypeError", << >>, << >>)
  ELSE HashOutcome(
         "", [k \in DOMAIN hashed |-> hashed[k].val],
         md5hex(sorted_dict(sorted_inputs(
           nofilename_items(keys, [k \in DOMAIN hashed |-> hashed[k].val],
                            found.infile_list)))))

\* dict_withhash[item] = self._hash_infile(dict_withhash, item) for the
\* items of infile_list, on a copy of the dict.
hash_fields(bunch, files, found) ==
  [k \in DOMAIN bunch |->
     IF found.exc = "" /\ \E j \in 1..Len(found.infile_list) :
                            found.infile_list[j] = k
     THEN hash_infile(dictcopy(bunch).dict[k], files)
     ELSE [exc |-> "", val |-> dictcopy(bunch).dict[k]]]

\* _get_bunch_hash(), the dict of the Bunch being in hash order `order`.
get_bunch_hash(bunch, files, order) ==
  hash_outcome(items(bunch, order),
               find_infiles(items(bunch, order), bunch, files, << >>),
               hash_fields(bunch, files,
                           find_infiles(items(bunch, order), bunch, files,
                                        << >>)))


\* --------------------------------------------- SPMCommand._generate_job
\* A node of a job descriptor, one record shape for all kinds: None
\* ("none"), a scalar v ("leaf"), a list of nodes ("list"), a dict with its
\* keys in the order of their insertion and the nodes they map to ("dict"),
\* a record array with its field names and one row of values per element
\* ("table"), and an object array ("cell") whose elements are scalars or
\* arrays, that is nodes of kind "cell" or "table".
JNode(k, v, keys, elems) == [k |-> k, v |-> v, keys |-> keys, elems |-> elems]
JNone == JNode("none", None, << >>, << >>)
JLeaf(v) == JNode("leaf", v, << >>, << >>)
JList(elems) == JNode("list", None, << >>, elems)
JDict(keys, elems) == JNode("dict", None, keys, elems)
JTable(keys, rows) == JNode("table", None, keys, rows)
JCell(elems) == JNode("cell", None, << >>, elems)

\* dict.keys() as the dict yields them: the keys in hash order `order`.
dict_keys(keys, order) ==
  SelectSeq(order, LAMBDA k : \E i \in 1..Len(keys) : keys[i] = k)

\* dict[key]
dict_get(keys, elems, key) ==
  elems[CHOOSE i \in 1..Len(keys) : keys[i] = key]

\* "%s = '%s';\n" for a str and "%s = %s;\n" % (prefix, str(contents)) for
\* any other scalar, as the line without its newline.
job_leaf(prefix, v) ==
  IF v.t = "str" THEN << prefix \o << " ", "=", " ", "'" >> \o v.s
                                \o << "'", ";" >> >>
  ELSE << prefix \o << " ", "=", " " >> \o PyStr(v) \o << ";" >> >>

\* index_prefix counting the elements from 0.
index_prefix_from_0(prefix, i) ==
  prefix \o << "(" >> \o Dec(i - 1) \o << ")" >>

\* "%s(%d)" % (prefix, i+1) for element i of enumerate, here the i-th
\* element counted from 1.
index_prefix(prefix, i) == prefix \o << "(" >> \o Dec(i) \o << ")" >>

\* "%s.%s" % (prefix, key)
key_prefix(prefix, key) == prefix \o << "." >> \o key

\* An element of an object array that is itself an array.
is_ndarray(val) == "k" \in DOMAIN val

\* The prefix handed to the call for an array nested in an object array,
\* prefix=None: like '' it is false in `if prefix:`.
NonePrefix == << >>

\* _generate_job(prefix, contents), the dicts being in hash order `order`:
\* the lines of jobstring. generate_list, generate_dict and generate_table
\* are its loops over a list from element i on, over the keys of a dict and
\* over the fields of row i of a record array.
RECURSIVE generate_job(_, _, _)
RECURSIVE generate_list(_, _, _, _)
RECURSIVE generate_dict(_, _, _, _)
RECURSIVE generate_table(_, _, _, _, _)
RECURSIVE job_cell(_, _)
generate_list(prefix, elems, i, order) ==
  IF i > Len(elems) THEN << >>
  ELSE generate_job(index_prefix(prefix, i), elems[i], order)
       \o generate_list(prefix, elems, i + 1, order)

generate_dict(prefix, contents, keys, order) ==
  IF keys = << >> THEN << >>
  ELSE generate_job(key_prefix(prefix, Head(keys)),
                    dict_get(contents.keys, contents.elems, Head(keys)),
                    order)
       \o generate_dict(prefix, contents, Tail(keys), order)

generate_table(prefix, contents, i, fields, order) ==
  IF i > Len(contents.elems) THEN << >>
  ELSE IF fields = << >>
  THEN generate_table(prefix, contents, i + 1,
                      dict_keys(contents.keys, order), order)
  ELSE generate_job(key_prefix(index_prefix(prefix, i), Head(fields)),
                    JLeaf(dict_get(contents.keys, contents.elems[i],
                                   Head(fields))),
                    order)
       \o generate_table(prefix, contents, i, Tail(fields), order)

\* The lines of the elements of an object array: those of the nested call
\* for an array, '%s';... for a str and %s;... for any other element.
job_cell(elems, order) ==
  IF elems = << >> THEN << >>
  ELSE (IF is_ndarray(Head(elems))
        THEN generate_job(NonePrefix, Head(elems), order)
        ELSE << IF Head(elems).t = "str"
                THEN << "'" >> \o Head(elems).s
                       \o << "'", ";", ".", ".", "." >>
                ELSE PyStr(Head(elems)) \o << ";", ".", ".", "." >> >>)
       \o job_cell(Tail(elems), order)

generate_job(prefix, contents, order) ==
  CASE contents.k = "none"  -> << >>
    [] contents.k = "list"  -> generate_list(prefix, contents.elems, 1, order)
    [] contents.k = "dict"  ->
         generate_dict(prefix, contents, dict_keys(contents.keys, order),
                       order)
    [] contents.k = "cell"  ->
         << IF prefix # << >> THEN prefix \o << " ", "=", " ", "{", ".", ".", "." >>
            ELSE << "{", ".", ".", "." >> >>
         \o job_cell(contents.elems, order) \o << << "}", ";" >> >>
    [] contents.k = "table" ->
         generate_table(prefix, contents, 1,
                        dict_keys(contents.keys, order), order)
    [] contents.k = "leaf"  -> job_leaf(prefix, contents.v)

\* The prefixes of the calls _generate_job makes of itself below a call
\* with this prefix and these contents.
RECURSIVE job_calls(_, _)
job_calls(prefix, contents) ==
  CASE contents.k = "list" ->
         UNION { {index_prefix(prefix, i)}
                   \cup job_calls(index_prefix(prefix, i), contents.elems[i]) :
                 i \in 1..Len(contents.elems) }
    [] contents.k = "dict" ->
         UNION { {key_prefix(prefix, contents.keys[i])}
                   \cup job_calls(key_prefix(prefix, contents.keys[i]),
                                  contents.elems[i]) :
                 i \in 1..Len(contents.elems) }
    [] contents.k = "table" ->
         { key_prefix(index_prefix(prefix, i), contents.keys[f]) :
           i \in 1..Len(contents.elems), f \in 1..Len(contents.keys) }
    [] contents.k = "cell" ->
         UNION { IF is_ndarray(contents.elems[i])
                 THEN {NonePrefix} \cup job_calls(NonePrefix, contents.elems[i])
                 ELSE {} :
                 i \in 1..Len(contents.elems) }
    [] OTHER -> {}

\* ------------------------------------------ SPMCommand._make_matlab_command
\* The attributes an SPMCommand has: those the class and BaseInterface
\* define.
SPMCommandAttributes ==
  { "inputs", "mlab", "jobtype", "jobname", "use_mfile", "run",
    "_run_interface", "_list_outputs", "_format_arg", "_parse_inputs",
    "_reformat_dict_for_savemat", "_generate_job", "_make_matlab_command" }

\* self.<name>: an attribute the object does not have raises AttributeError.
getattr_exc(name) ==
  IF name \in SPMCommandAttributes THEN "" ELSE "AttributeError"

\* The jobtype and jobname of the class: those of SPMCommand itself and those
\* of a subclass whose jobname is in the list of line 375.
JobClasses ==
  { [jobtype |-> << "b", "a", "s", "e", "t", "y", "p", "e" >>, jobname |-> << "b", "a", "s", "e", "n", "a", "m", "e" >>],
    [jobtype |-> << "s", "p", "a", "t", "i", "a", "l" >>, jobname |-> << "s", "m", "o", "o", "t", "h" >>] }

\* The job names whose structure is indexed with parentheses.
ParenJobs == { << "s", "t" >>, << "s", "m", "o", "o", "t", "h" >>, << "p", "r", "e", "p", "r", "o", "c" >>, << "p", "r", "e", "p", "r", "o", "c", "8" >>, << "f", "m", "r", "i", "_", "s", "p", "e", "c" >>, << "f", "m", "r", "i", "_", "e", "s", "t" >>, << "f", "a", "c", "t", "o", "r", "i", "a", "l", "_", "d", "e", "s", "i", "g", "n" >> }

\* 'jobs{1}.%s{1}.%s(1)' % (jobtype, jobname), or with {1} at the end.
job_root(jc) ==
  << "j", "o", "b", "s", "{", "1", "}", "." >> \o jc.jobtype \o << "{", "1", "}", "." >> \o jc.jobname
  \o (IF jc.jobname \in ParenJobs THEN << "(", "1", ")" >> ELSE << "{", "1", "}" >>)

\* The lines of the script that are the same for every job: the first of
\* the head and the last of the tail.
ScriptHead == << "%", "%", " ", "G", "e", "n", "e", "r", "a", "t", "e", "d", " ", "b", "y", " ", "n", "i", "p", "y", "p", "e", ".", "i", "n", "t", "e", "r", "f", "a", "c", "e", "s", ".", "s", "p", "m" >>
ScriptRun == << "s", "p", "m", "_", "j", "o", "b", "m", "a", "n", "(", "'", "r", "u", "n", "'", ",", "j", "o", "b", "s", ")", ";" >>

\* What _make_matlab_command returns: the lines of mscript and the name of
\* the file savemat wrote (<< >> for none), or the exception raised.
ScriptOutcome(exc, mfile, jc, script, saved) ==
  [op |-> "script", exc |-> exc, mfile |-> mfile, jc |-> jc,
   jobstring |-> script, saved |-> saved, calls |-> {}]

\* _make_matlab_command(contents) with self.mlab.inputs.mfile = mfile,
\* contents[0] being the descriptor: the job is generated inline, or the
\* attribute of line 385 is looked up, the structure saved and a load line
\* put in its place.
make_matlab_command(mfile, jc, contents, order) ==
  IF mfile
  THEN ScriptOutcome("", mfile, jc,
                     << ScriptHead >>
                     \o generate_job(job_root(jc), contents, order)
                     \o << ScriptRun >>,
                     << >>)
  ELSE IF getattr_exc("reformat_dict_for_savemat") # ""
  THEN ScriptOutcome(getattr_exc("reformat_dict_for_savemat"), mfile, jc,
                     << >>, << >>)
  ELSE ScriptOutcome("", mfile, jc,
                     << ScriptHead,
                        << "l", "o", "a", "d", " ", "p", "y", "j", "o", "b", "s", "_" >> \o jc.jobname \o << ";" >>,
                        ScriptRun >>,
                     << "p", "y", "j", "o", "b", "s", "_" >> \o jc.jobname \o << ".", "m", "a", "t" >>)

\* ------------------------------------------------------- cmdline and run
Texts(tokens) == [i \in 1..Len(tokens) |-> tokens[i].text]


\* What the last call on the interface returned or raised, and for a run
\* what the call has done so far. op is the operation, exc the exception
\* that reached the caller ("" for none); tokens, missing and warned are
\* those of _parse_inputs, line the command line string, launched the
\* number of child processes the call has started, returncode the child's
\* exit status (-1 while there is none) and outputs whether
\* result.outputs was set; stdout and stderr are those of the runtime
\* Bunch, None until communicate returns.
Ret(op, skip, out, line, launched, returncode, outputs) ==
  [op |-> op, skip |-> skip, exc |-> out.exc, tokens |-> out.tokens,
   missing |-> out.missing, warned |-> out.warned, line |-> line,
   launched |-> launched, returncode |-> returncode, outputs |-> outputs,
   stdout |-> None, stderr |-> None]

NoOutcome == Outcome("", << >>, {}, << >>)
NoRet == Ret("none", {}, NoOutcome, << >>, 0, -1, FALSE)

\* join_cmdline without the command put in front.
join_cmdline_no_command(command, out) ==
  Ret("cmdline", {}, out, JoinSpace(Texts(out.tokens)), 0, -1, FALSE)

\* ' '.join(allargs) after allargs.insert(0, self.cmd), out being what
\* _parse_inputs returned: join raises a TypeError on an item that is no
\* string, such as a command of None.
join_cmdline(command, out) ==
  IF command.t # "str"
  THEN Ret("cmdline", {}, Outcome("TypeError", << >>, {}, out.warned),
           << >>, 0, -1, FALSE)
  ELSE Ret("cmdline", {}, out,
           JoinSpace(<< command.s >> \o Texts(out.tokens)), 0, -1, FALSE)

\* The cmdline property on the outcome of _parse_inputs: its exception
\* passes through, its list is joined.
cmdline_of(command, out) ==
  IF out.exc # "" THEN Ret("cmdline", {}, out, << >>, 0, -1, FALSE)
  ELSE join_cmdline(command, out)

\* The cmdline property: _parse_inputs() and the joined line.
cmdline(spec, command, bunch, order) ==
  cmdline_of(command, parse_inputs(spec, bunch, {}, order))

VARIABLES
  class,     \* the class of the interface, which holds in_spec
  cmd,       \* self._cmd
  inputs,    \* self.inputs.__dict__
  pc,        \* where the caller is: idle, inside run (popen,
             \* communicate), or holding the outcome of a call (returned)
  ret,       \* the outcome of the call in progress or returned (see Ret)
  files,     \* the filesystem: the bytes of each existing regular file
  job,       \* the prefix and contents _generate_job is called with
  result,    \* the InterfaceResult the caller holds from the last run
  peer       \* a second instance of the class and what the two share

vars == << class, cmd, inputs, pc, ret, files, job, result, peer >>

\* self.in_spec
in_spec == InSpecOf[class]

\* The assignments a caller makes to the inputs of each class.
Assignments ==
  [c \in Classes |->
     UNION { { (name :> v) : v \in Candidates(InSpecOf[c], name) } :
             name \in Names(InSpecOf[c]) }]

\* The keyword arguments of a constructor call: none or one.
InitKwargs == [c \in Classes |-> {EmptyDict} \cup Assignments[c]]

\* The keyword arguments of a run call: none, or one for an input file,
\* for args or for a name in_spec does not hold.
RunKwargs ==
  [c \in Classes |->
     {EmptyDict} \cup
     {kw \in Assignments[c] :
        /\ DOMAIN kw \subseteq {s_in, s_args, s_zz}
        /\ \A k \in DOMAIN kw : kw[k].t \in {"none", "int", "str"}}]

\* The filesystem with no file.
NoFiles == [p \in {} |-> << >>]

\* No call of _generate_job.
NoJob == [prefix |-> << >>, contents |-> JNone]

\* InterfaceResult(interface, runtime, outputs): interface refers to a
\* copy that holds its own cmd and inputs ("copy") or to the interface
\* that was run ("self"); runtime holds cmdline, stdout, stderr and
\* returncode of the runtime Bunch; outputs is None or the Bunch of
\* aggregate_outputs.
InterfaceResult(interface, runtime, outputs) ==
  [interface |-> interface, runtime |-> runtime, outputs |-> outputs]

\* No second instance.
NoPeer ==
  [inputs |-> EmptyDict, defaults |-> EmptyDict, self_shares |-> {},
   peer_shares |-> {}]

\* The caller holds no result.
NoResult ==
  InterfaceResult([ref |-> "none", cmd |-> None, inputs |-> EmptyDict],
                  [cmdline |-> << >>, stdout |-> None, stderr |-> None,
                   returncode |-> -1],
                  "None")

\* The interface with no copy made of it.
same_object(self_cmd, self_inputs) ==
  [ref |-> "self", cmd |-> None, inputs |-> EmptyDict]

\* deepcopy(self): a new object with copies of _cmd and inputs.
deepcopy(self_cmd, self_inputs) ==
  [ref |-> "copy", cmd |-> self_cmd, inputs |-> self_inputs]

\* What the child process writes to stdout and stderr.
ChildOutputs ==
  { [stdout |-> PyString(<< "f", "o", "o", "\n" >>), stderr |-> PyString(<< >>)],
    [stdout |-> PyString(<< >>), stderr |-> PyString(<< "e", "r", "r" >>)] }

\* CommandLine(command, **inputs)
Init ==
  /\ class \in Classes
  /\ cmd \in Commands(in_spec)
  /\ \E kwargs \in InitKwargs[class] : inputs = init_inputs(in_spec, kwargs)
  /\ pc = "idle"
  /\ ret = NoRet
  /\ files = NoFiles
  /\ job = NoJob
  /\ result = NoResult
  /\ peer = NoPeer

\* interface.inputs.<name> = value
SetInput(kwargs) ==
  /\ pc = "idle"
  /\ inputs' = update(inputs, kwargs)
  /\ UNCHANGED << class, cmd, pc, ret, files, job, peer, result >>

\* interface._check_mandatory_inputs()
CheckMandatory ==
  /\ pc = "idle"
  /\ LET chk == check_mandatory_inputs(in_spec, inputs) IN
     ret' = Ret("check", {},
                Outcome(IF chk.raised THEN "ValueError" ELSE "",
                        << >>, chk.missing, << >>),
                << >>, 0, -1, FALSE)
  /\ pc' = "returned"
  /\ UNCHANGED << class, cmd, inputs, files, job, peer, result >>

\* interface._parse_inputs(skip)
ParseInputs(skip, order) ==
  /\ pc = "idle"
  /\ ret' = Ret("parse", skip, parse_inputs(in_spec, inputs, skip, order),
                << >>, 0, -1, FALSE)
  /\ pc' = "returned"
  /\ UNCHANGED << class, cmd, inputs, files, job, peer, result >>

\* interface.cmdline
Cmdline(order) ==
  /\ pc = "idle"
  /\ ret' = cmdline(in_spec, cmd, inputs, order)
  /\ pc' = "returned"
  /\ UNCHANGED << class, cmd, inputs, files, job, peer, result >>

\* RunCall with the child started whatever cmdline raised.
RunCallUnvalidated(kwargs, order) ==
  /\ pc = "idle"
  /\ inputs' = update(inputs, kwargs)
  /\ ret' = [cmdline(in_spec, cmd, inputs', order) EXCEPT !.op = "run"]
  /\ pc' = "popen"
  /\ UNCHANGED << class, cmd, files, job, peer, result >>

\* run(cwd, **kwargs) up to the creation of the runtime Bunch: the inputs
\* are updated, then self.cmdline is read. An exception of cmdline leaves
\* run; otherwise run goes on to start the child.
RunCall(kwargs, order) ==
  /\ pc = "idle"
  /\ inputs' = update(inputs, kwargs)
  /\ ret' = [cmdline(in_spec, cmd, inputs', order) EXCEPT !.op = "run"]
  /\ pc' = IF ret'.exc # "" THEN "returned" ELSE "popen"
  /\ UNCHANGED << class, cmd, files, job, peer, result >>

\* subprocess.Popen(runtime.cmdline, shell=True, cwd=cwd, ...): the child
\* is started.
RunPopen ==
  /\ pc = "popen"
  /\ ret' = [ret EXCEPT !.launched = ret.launched + 1]
  /\ pc' = "communicate"
  /\ UNCHANGED << class, cmd, inputs, files, job, peer, result >>

\* Popen raises OSError when the child cannot be started (cwd is no
\* directory): the exception leaves run.
RunPopenFails ==
  /\ pc = "popen"
  /\ ret' = [ret EXCEPT !.exc = "OSError"]
  /\ pc' = "returned"
  /\ UNCHANGED << class, cmd, inputs, files, job, peer, result >>

\* runtime.stdout, runtime.stderr = proc.communicate() and
\* runtime.returncode = proc.returncode: the child has exited.
RunCommunicate(returncode, out) ==
  /\ pc = "communicate"
  /\ ret' = [ret EXCEPT !.returncode = returncode,
                        !.stdout = out.stdout, !.stderr = out.stderr]
  /\ pc' = "results"
  /\ UNCHANGED << class, cmd, inputs, files, job, peer, result >>

\* RunReturn raising for a return code other than 0.
RunReturnChecked ==
  /\ pc = "results"
  /\ ret' = [ret EXCEPT !.outputs = (ret.returncode = 0),
                        !.exc = IF ret.returncode = 0 THEN ""
                                ELSE "CalledProcessError"]
  /\ result' = IF ret.returncode # 0 THEN result
               ELSE InterfaceResult(
                      deepcopy(cmd, inputs),
                      [cmdline |-> ret.line, stdout |-> ret.stdout,
                       stderr |-> ret.stderr, returncode |-> ret.returncode],
                      "Bunch")
  /\ pc' = "returned"
  /\ UNCHANGED << class, cmd, inputs, files, job, peer >>

\* results = InterfaceResult(deepcopy(self), runtime), results.outputs =
\* self.aggregate_outputs() for a return code of 0, return results.
RunReturn ==
  /\ pc = "results"
  /\ ret' = [ret EXCEPT !.outputs = (ret.returncode = 0)]
  /\ result' = InterfaceResult(
                 deepcopy(cmd, inputs),
                 [cmdline |-> ret.line, stdout |-> ret.stdout,
                  stderr |-> ret.stderr, returncode |-> ret.returncode],
                 IF ret.returncode = 0 THEN "Bunch" ELSE "None")
  /\ pc' = "returned"
  /\ UNCHANGED << class, cmd, inputs, files, job, peer >>

\* The caller has read what the call returned or raised, drops it and
\* goes on.
Continue ==
  /\ pc = "returned"
  /\ pc' = "idle"
  /\ ret' = NoRet
  /\ result' = NoResult
  /\ UNCHANGED << class, cmd, inputs, files, job, peer >>

Next ==
  \/ \E kwargs \in Assignments[class] : SetInput(kwargs)
  \/ CheckMandatory
  \/ \E skip \in SkipSets : \E order \in HashOrders : ParseInputs(skip, order)
  \/ \E order \in HashOrders : Cmdline(order)
  \/ \E kwargs \in RunKwargs[class] :
       \E order \in HashOrders : RunCall(kwargs, order)
  \/ RunPopen
  \/ RunPopenFails
  \/ \E returncode \in 0..MaxReturnCode :
       \E out \in ChildOutputs : RunCommunicate(returncode, out)
  \/ RunReturn
  \/ Continue

Spec == Init /\ [][Next]_vars

\* ------------------------------------------------------- two instances
\* a = Tool2(), b = Tool2(): __init__ sets every field of both instances to
\* the default object v[2] of in_spec itself. peer.inputs are the inputs of
\* b, peer.defaults the defaults in_spec records, self_shares and
\* peer_shares the fields of a and of b whose value is still that object.
PeerInit ==
  /\ class = "Tool2"
  /\ cmd \in Commands(in_spec)
  /\ inputs = init_inputs(in_spec, EmptyDict)
  /\ pc = "idle"
  /\ ret = NoRet
  /\ files = NoFiles
  /\ job = NoJob
  /\ result = NoResult
  /\ peer = [inputs |-> init_inputs(in_spec, EmptyDict),
             defaults |-> [k \in DOMAIN in_spec |-> in_spec[k].default],
             self_shares |-> DOMAIN in_spec,
             peer_shares |-> DOMAIN in_spec]

\* a.inputs.<name> = value, a.inputs.update(**kwargs): the fields name
\* new objects.
AssignInput(kwargs) ==
  /\ pc = "idle"
  /\ inputs' = update(inputs, kwargs)
  /\ peer' = [peer EXCEPT !.self_shares = @ \ DOMAIN kwargs]
  /\ UNCHANGED << class, cmd, pc, ret, files, job, result >>

\* a.inputs.<name>.append(value): the list object the field names is
\* changed in place, for everything that names it.
AppendInPlace(name, value) ==
  /\ pc = "idle"
  /\ name \in DOMAIN inputs
  /\ inputs[name].t = "list"
  /\ Len(inputs[name].l) < MaxListLen
  /\ inputs' = [inputs EXCEPT ![name] = PyList(@.l \o << value >>)]
  /\ peer' = IF name \notin peer.self_shares THEN peer
             ELSE [peer EXCEPT
                     !.defaults[name] = PyList(@.l \o << value >>),
                     !.inputs[name] =
                        IF name \in peer.peer_shares
                        THEN PyList(@.l \o << value >>) ELSE @]
  /\ UNCHANGED << class, cmd, pc, ret, files, job, result >>

\* Every operation is on the first instance; the second is only built.
PeerNext ==
  \/ \E kwargs \in Assignments[class] : AssignInput(kwargs)
  \/ \E name \in DOMAIN inputs : AppendInPlace(name, PyInt(3))
  \/ \E order \in HashOrders : Cmdline(order)
  \/ \E order \in HashOrders : RunCall(EmptyDict, order)
  \/ RunPopen
  \/ RunPopenFails
  \/ \E returncode \in 0..MaxReturnCode :
       \E out \in ChildOutputs : RunCommunicate(returncode, out)
  \/ RunReturn
  \/ Continue

SpecPeers == PeerInit /\ [][PeerNext]_vars

\* ---------------------------------------------------------- DataSink
s_base_directory == << "b", "a", "s", "e", "_", "d", "i", "r", "e", "c", "t", "o", "r", "y" >>
s_container == << "c", "o", "n", "t", "a", "i", "n", "e", "r" >>
s_parameterization == << "p", "a", "r", "a", "m", "e", "t", "e", "r", "i", "z", "a", "t", "i", "o", "n" >>
s_outputs == << "_", "o", "u", "t", "p", "u", "t", "s" >>
s_structural == << "s", "t", "r", "u", "c", "t", "u", "r", "a", "l" >>
s_contrasts_con == << "c", "o", "n", "t", "r", "a", "s", "t", "s", "@", "c", "o", "n" >>

\* The value of a trait that was never assigned.
Undefined == Val("undefined", FALSE, 0, << >>, << >>)

\* The kind of value each declared trait of DataSinkInputSpec accepts.
SinkTraits ==
  (s_base_directory :> "str") @@ (s_container :> "str")
  @@ (s_parameterization :> "bool") @@ (s_outputs :> "dict")

\* self.copyable_trait_names(): the names of the declared traits.
copyable_trait_names(spec) == DOMAIN SinkTraits

\* HasTraits.__setattr__ on a declared trait: the value is validated
\* against the trait, TraitError for a value of another kind.
trait_setattr(spec, key, value) ==
  IF value.t = SinkTraits[key]
  THEN [exc |-> "", inputs |-> [spec EXCEPT ![key] = value]]
  ELSE [exc |-> "TraitError", inputs |-> spec]

\* sink_setattr with the undeclared names refused, as a spec without the
\* override refuses them.
sink_setattr_strict(spec, key, value) ==
  IF key \notin copyable_trait_names(spec)
  THEN [exc |-> "TraitError", inputs |-> spec]
  ELSE trait_setattr(spec, key, value)

\* DataSinkInputSpec.__setattr__(key, value): spec holds the value of each
\* declared trait, the dict _outputs among them.
sink_setattr(spec, key, value) ==
  IF key \notin copyable_trait_names(spec)
  THEN [exc |-> "",
        inputs |-> [spec EXCEPT ![s_outputs] =
                      [k \in DOMAIN @ \cup {key} |->
                         IF k = key THEN value ELSE @[k]]]]
  ELSE trait_setattr(spec, key, value)

\* ds = DataSink(): the traits at their defaults, _outputs an empty dict.
SinkInit ==
  /\ class = "DataSink"
  /\ cmd = None
  /\ inputs = (s_base_directory :> Undefined) @@ (s_container :> Undefined)
               @@ (s_parameterization :> PyBool(TRUE))
               @@ (s_outputs :> EmptyDict)
  /\ pc = "idle"
  /\ ret = NoRet
  /\ files = NoFiles
  /\ job = NoJob
  /\ result = NoResult
  /\ peer = NoPeer

\* ds.inputs.<key> = value, setattr(ds.inputs, key, value)
SinkSetattr(key, value) ==
  /\ pc = "idle"
  /\ inputs' = sink_setattr(inputs, key, value).inputs
  /\ ret' = [op |-> "setattr", exc |-> sink_setattr(inputs, key, value).exc,
             key |-> key, value |-> value]
  /\ pc' = "returned"
  /\ UNCHANGED << class, cmd, files, job, result, peer >>

\* The caller assigns declared names and names of its own, with values of
\* several kinds.
SinkNext ==
  \/ \E key \in {s_base_directory, s_container, s_parameterization,
                  s_structural, s_contrasts_con} :
       \E value \in {PyString(s_x), PyBool(FALSE), PyInt(1),
                      PyList(<< PyString(s_x) >>)} : SinkSetattr(key, value)
  \/ Continue

SpecSink == SinkInit /\ [][SinkNext]_vars

\* ------------------------------------------------- the caller keeps results
\* clout = cl.run(): the caller has read what run returned or raised and
\* goes on with the InterfaceResult it holds from the last run that
\* returned one.
KeepResult ==
  /\ pc = "returned"
  /\ pc' = "idle"
  /\ ret' = NoRet
  /\ UNCHANGED << class, cmd, inputs, files, job, peer, result >>

\* A caller that runs the interface, keeps the result and assigns inputs
\* of the interface afterwards.
ResultNext ==
  \/ \E kwargs \in Assignments[class] : SetInput(kwargs)
  \/ \E kwargs \in RunKwargs[class] :
       \E order \in HashOrders : RunCall(kwargs, order)
  \/ RunPopen
  \/ RunPopenFails
  \/ \E returncode \in 0..MaxReturnCode :
       \E out \in ChildOutputs : RunCommunicate(returncode, out)
  \/ RunReturn
  \/ KeepResult

\* cl = CommandLine('echo', args='foo'): the interface is a CommandLine.
ResultInit == Init /\ class = "CommandLine"

SpecResult == ResultInit /\ [][ResultNext]_vars

\* ------------------------------------------------- Bunch._get_bunch_hash
s_infile == << "i", "n", "f", "i", "l", "e" >>
s_files  == << "f", "i", "l", "e", "s" >>
s_other  == << "o", "t", "h", "e", "r", "t", "h", "i", "n", "g" >>

\* The paths the fields name and the bytes a file holds.
Paths == { << "a" >>, << "b" >>, << "c" >> }
Bytes == { << "X" >>, << "Y" >> }

\* The order of the keys in the dict of a Bunch: one of two.
BunchOrders == { << s_other, s_infile, s_files >>,
                 << s_files, s_infile, s_other >> }

\* The lists of paths a field holds: empty, of one path and of two, with an
\* existing file first or second.
PathLists ==
  { PyList(l) : l \in { << >>,
                        << PyString(<< "a" >>) >>,
                        << PyString(<< "c" >>) >>,
                        << PyString(<< "a" >>), PyString(<< "b" >>) >>,
                        << PyString(<< "c" >>), PyString(<< "a" >>) >> } }

\* The values a caller gives the fields of a Bunch: a path, a list of
\* paths, and a value that is no path.
BunchCandidates ==
  (s_infile :> ({PyString(p) : p \in Paths} \cup {PyString(<< >>)}))
  @@ (s_files :> (PathLists \cup {PyDict}))
  @@ (s_other :> {PyBool(TRUE), PyInt(3), None})

\* Bunch(**kwargs) and Bunch.update(**kwargs) with one keyword.
BunchAssignments ==
  UNION { { (name :> v) : v \in BunchCandidates[name] } :
          name \in DOMAIN BunchCandidates }

\* Bunch(infile=..., files=..., otherthing=...), on a filesystem holding
\* any of the paths.
HashInit ==
  /\ class = "Bunch"
  /\ cmd = None
  /\ inputs \in [DOMAIN BunchCandidates -> UNION {BunchCandidates[k] :
                                                  k \in DOMAIN BunchCandidates}]
  /\ \A k \in DOMAIN inputs : inputs[k] \in BunchCandidates[k]
  /\ files \in UNION { [S -> Bytes] : S \in SUBSET Paths }
  /\ pc = "idle"
  /\ ret = NoRet
  /\ job = NoJob
  /\ result = NoResult
  /\ peer = NoPeer

\* A file is created or its bytes are replaced.
WriteFile(path, data) ==
  /\ pc = "idle"
  /\ files' = [p \in DOMAIN files \cup {path} |->
                 IF p = path THEN data ELSE files[p]]
  /\ UNCHANGED << class, cmd, inputs, pc, ret, job, peer, result >>

\* A file is removed.
RemoveFile(path) ==
  /\ pc = "idle"
  /\ path \in DOMAIN files
  /\ files' = [p \in DOMAIN files \ {path} |-> files[p]]
  /\ UNCHANGED << class, cmd, inputs, pc, ret, job, peer, result >>

\* bunch._get_bunch_hash()
GetBunchHash(order) ==
  /\ pc = "idle"
  /\ ret' = returned_dict(get_bunch_hash(inputs, files, order), inputs,
                          dictcopy(inputs))
  /\ pc' = "returned"
  /\ UNCHANGED << class, cmd, inputs, files, job, peer, result >>

\* d = bunch.dictcopy()
DictCopy ==
  /\ pc = "idle"
  /\ ret' = [op |-> "dictcopy", exc |-> "",
             dict_withhash |-> dictcopy(inputs).dict, hashvalue |-> << >>,
             shares |-> dictcopy(inputs).shares]
  /\ pc' = "returned"
  /\ UNCHANGED << class, cmd, inputs, files, job, peer, result >>

\* d[key].append(value) on the dict the caller holds from dictcopy or
\* _get_bunch_hash: the list is changed in place, for everything that names
\* it. The dict is then no longer what the call returned (op "held").
ChangeReturned(key, value) ==
  /\ pc = "returned"
  /\ ret.op \in {"dictcopy", "hash", "held"}
  /\ ret.exc = ""
  /\ ret.dict_withhash[key].t = "list"
  /\ Len(ret.dict_withhash[key].l) < MaxListLen
  /\ ret' = [ret EXCEPT !.op = "held",
                        !.dict_withhash[key] = PyList(@.l \o << value >>)]
  /\ inputs' = IF key \in ret.shares
               THEN [inputs EXCEPT ![key] = PyList(@.l \o << value >>)]
               ELSE inputs
  /\ UNCHANGED << class, cmd, pc, files, job, peer, result >>

HashNext ==
  \/ \E kwargs \in BunchAssignments : SetInput(kwargs)
  \/ \E path \in Paths : \E data \in Bytes : WriteFile(path, data)
  \/ \E path \in Paths : RemoveFile(path)
  \/ \E order \in BunchOrders : GetBunchHash(order)
  \/ DictCopy
  \/ \E key \in DOMAIN inputs : ChangeReturned(key, None)
  \/ Continue

SpecHash == HashInit /\ [][HashNext]_vars



\* ------------------------------------------------------------ the claims
\* The calls whose outcome holds the token list of _parse_inputs, returned.
Parsed == ret.op = "parse" /\ ret.exc = ""

\* The fields the tokens of the last call were formatted from, in order.
Fields(tokens) == [i \in 1..Len(tokens) |-> tokens[i].field]

HasPosition(f) == in_spec[f].position # << >>
PositionOf(f) == in_spec[f].position[1]
Unpositioned(f) == ~HasPosition(f)
NonNegative(f) == HasPosition(f) /\ PositionOf(f) >= 0
Negative(f) == HasPosition(f) /\ PositionOf(f) < 0

\* A field is defined when its value is anything other than None.
Defined(f) == f \in DOMAIN inputs /\ inputs[f] # None

\* C1: _check_mandatory_inputs fails whenever a mandatory field of in_spec
\* is not defined, and the fields it reports as missing are exactly the
\* mandatory fields that are not defined.
C1_MissingAreTheUndefinedMandatory ==
  ret.op = "check" =>
    LET undefined == {m \in mandatory_args(in_spec) : ~Defined(m)} IN
      /\ (undefined # {}) = (ret.exc = "ValueError")
      /\ ret.missing = undefined

\* C2: in run, a process is launched only by a call whose validation has
\* passed: a call that has launched a process has raised neither the
\* missing-mandatory ValueError nor the unknown-field KeyError, every
\* mandatory field is defined and every defined field is one of in_spec.
C2_NoLaunchWithValidationError ==
  ret.launched > 0 =>
    /\ ret.op = "run"
    /\ ret.exc \notin {"ValueError", "KeyError"}
    /\ \A m \in mandatory_args(in_spec) : Defined(m)
    /\ \A k \in DOMAIN inputs : Defined(k) => k \in DOMAIN in_spec

\* A run call that failed validation, back at the caller with no process
\* launched.
C2_Witness ==
  /\ ret.op = "run" /\ pc = "returned"
  /\ ret.exc \in {"ValueError", "KeyError"}
  /\ ret.launched = 0

\* C3: in the returned token sequence every token of a field with a negative
\* position comes after every token of the other fields, and the
\* negative-position tokens are in ascending order of position; fields at
\* position 0 and -1 with two unpositioned fields give [A, C, D, B].
C3_NegativeLastAscending ==
  Parsed =>
    /\ \A i, j \in 1..Len(ret.tokens) :
         /\ (Negative(ret.tokens[i].field) /\ ~Negative(ret.tokens[j].field))
               => j < i
         /\ (Negative(ret.tokens[i].field) /\ Negative(ret.tokens[j].field)
               /\ i < j)
               => PositionOf(ret.tokens[i].field)
                    < PositionOf(ret.tokens[j].field)
    /\ ( /\ class = "Tool" /\ ret.skip = {}
         /\ inputs[s_in] = PyString(s_x) /\ inputs[s_out] = PyString(s_x)
         /\ inputs[s_flag] = PyBool(TRUE)
         /\ inputs[s_id] = PyInt(7)
         /\ inputs[s_ref] = None /\ inputs[s_msk] = None )
       => Fields(ret.tokens) = << s_in, s_flag, s_id, s_out >>

\* Tokens at positions -2 and -1 after an unpositioned and a positioned one.
C3_Witness ==
  /\ Parsed
  /\ \E i, j, k, l \in 1..Len(ret.tokens) :
       /\ NonNegative(ret.tokens[i].field)
       /\ Unpositioned(ret.tokens[j].field)
       /\ Negative(ret.tokens[k].field) /\ Negative(ret.tokens[l].field)
       /\ k < l

\* C4, as claimed: the token of every field with a non-negative position p
\* is at index p of the returned sequence.
C4_TokenAtIndexP ==
  Parsed =>
    \A i \in 1..Len(ret.tokens) :
      NonNegative(ret.tokens[i].field) =>
        i - 1 = PositionOf(ret.tokens[i].field)

\* The tokens that are in the list when the token at index i is inserted:
\* those of the unpositioned fields and of the fields at a smaller
\* non-negative position.
TokensBefore(tokens, i) ==
  Cardinality({j \in 1..Len(tokens) :
     \/ Unpositioned(tokens[j].field)
     \/ /\ NonNegative(tokens[j].field)
        /\ PositionOf(tokens[j].field) < PositionOf(tokens[i].field)})

Min(a, b) == IF a <= b THEN a ELSE b

\* C4, amended: the token of a field with a non-negative position p that
\* is in the returned sequence is at index min(p, k), k being the number of
\* tokens of the sequence that come from unpositioned fields or from
\* fields at a smaller non-negative position.
C4_TokenAtIndexPOrEnd ==
  Parsed =>
    \A i \in 1..Len(ret.tokens) :
      NonNegative(ret.tokens[i].field) =>
        i - 1 = Min(PositionOf(ret.tokens[i].field),
                    TokensBefore(ret.tokens, i))

\* A token at its position with tokens after it, and a token whose
\* position lies beyond the tokens that precede it.
C4_Witness ==
  /\ Parsed
  /\ \E i, j \in 1..Len(ret.tokens) :
       /\ NonNegative(ret.tokens[i].field)
       /\ PositionOf(ret.tokens[i].field) = i - 1 /\ i < Len(ret.tokens)
       /\ NonNegative(ret.tokens[j].field)
       /\ PositionOf(ret.tokens[j].field) > j - 1

\* C5: the tokens of the fields without a position are in the order of
\* their field names, whatever tokens are inserted among them.
C5_UnpositionedInNameOrder ==
  Parsed =>
    \A i, j \in 1..Len(ret.tokens) :
      ( /\ i < j
        /\ Unpositioned(ret.tokens[i].field)
        /\ Unpositioned(ret.tokens[j].field)
        /\ ret.tokens[i].field # ret.tokens[j].field )
      => StrLess(ret.tokens[i].field, ret.tokens[j].field)

\* Two unpositioned fields' tokens with a positioned token between them.
C5_Witness ==
  /\ Parsed
  /\ \E i, j, k \in 1..Len(ret.tokens) :
       /\ i < j /\ j < k
       /\ Unpositioned(ret.tokens[i].field)
       /\ NonNegative(ret.tokens[j].field)
       /\ Unpositioned(ret.tokens[k].field)
       /\ ret.tokens[i].field # ret.tokens[k].field

\* The fields whose template holds no substitution marker.
BareFlags == {f \in DOMAIN in_spec : \A i \in 1..Len(in_spec[f].argstr) :
                                       in_spec[f].argstr[i] # "%"}

TokensOf(f) == SelectSeq(ret.tokens, LAMBDA tok : tok.field = f)

\* C6: a bare flag that is True has exactly one token, the template
\* itself, and a bare flag that is False has no token.
C6_BareFlag ==
  Parsed =>
    \A f \in BareFlags \ ret.skip :
      /\ inputs[f] = PyBool(TRUE)
           => Texts(TokensOf(f)) = << in_spec[f].argstr >>
      /\ inputs[f] = PyBool(FALSE) => TokensOf(f) = << >>

\* A flag set to True among other options, its token in the list.
C6_Witness ==
  /\ Parsed
  /\ \E f \in BareFlags :
       /\ inputs[f] = PyBool(TRUE)
       /\ Len(TokensOf(f)) = 1
       /\ Len(ret.tokens) > 1

\* The elements of a value that the repeatable branch formats.
Elements(v) == IF v.t = "list" THEN v.l ELSE << v >>

\* C7: an unpositioned repeatable field ('--id %d...') whose elements are
\* numbers has one token per element, in element order, each the template
\* without '...' with the element in the place of %d; a scalar counts as
\* a list of one; [1, 2, 3] gives '--id 1', '--id 2', '--id 3'.
C7_RepeatableOneTokenPerElement ==
  (Parsed /\ class = "Tool" /\ s_id \notin ret.skip /\ Defined(s_id)) =>
    LET elems == Elements(inputs[s_id]) IN
    /\ (\A i \in 1..Len(elems) : elems[i].t = "int")
         => Texts(TokensOf(s_id)) =
              [i \in 1..Len(elems) |->
                 << "-", "-", "i", "d", " " >> \o Dec(elems[i].n)]
    /\ inputs[s_id] = PyList(<< PyInt(1), PyInt(2), PyInt(3) >>)
         => Texts(TokensOf(s_id)) =
              << << "-", "-", "i", "d", " ", "1" >>,
                 << "-", "-", "i", "d", " ", "2" >>,
                 << "-", "-", "i", "d", " ", "3" >> >>

\* A list of three elements formatted to three tokens.
C7_Witness ==
  /\ Parsed /\ class = "Tool"
  /\ inputs[s_id].t = "list" /\ Len(inputs[s_id].l) = 3
  /\ Len(TokensOf(s_id)) = 3

\* The defined fields _parse_inputs(skip) does not skip and in_spec does
\* not hold.
UnknownFields(skip) ==
  {k \in DOMAIN inputs : Defined(k) /\ k \notin skip /\ k \notin DOMAIN in_spec}

\* C8: with a defined, unskipped field that in_spec does not hold,
\* _parse_inputs raises and returns no token; without one it raises no
\* KeyError.
C8_UnknownFieldIsFatal ==
  ret.op = "parse" =>
    /\ UnknownFields(ret.skip) # {}
         => ret.exc \in {"KeyError", "ValueError", "IndexError"}
              /\ ret.tokens = << >>
    /\ UnknownFields(ret.skip) = {} => ret.exc # "KeyError"

\* The KeyError raised after an option of in_spec was formatted.
C8_Witness ==
  /\ ret.op = "parse" /\ ret.exc = "KeyError" /\ ret.tokens = << >>
  /\ UnknownFields(ret.skip) # {}
  /\ \E f \in DOMAIN in_spec : Defined(f) /\ f \notin ret.skip

\* C9: the outcome of _parse_inputs and of cmdline is that of a fresh
\* interface of the same class built with the same command and the
\* current inputs, in whatever order its dict holds them.
C9_FunctionOfInputs ==
  /\ ret.op = "cmdline" =>
       \A order \in HashOrders :
         cmdline(in_spec, cmd, init_inputs(in_spec, inputs), order) = ret
  /\ ret.op = "parse" =>
       \A order \in HashOrders :
         LET fresh == parse_inputs(in_spec, init_inputs(in_spec, inputs),
                                   ret.skip, order)
         IN  fresh.exc = ret.exc /\ fresh.tokens = ret.tokens

\* A command line of two unpositioned options, whose order the dict does
\* not decide.
C9_Witness ==
  /\ ret.op = "cmdline" /\ ret.exc = ""
  /\ \E i, j \in 1..Len(ret.tokens) :
       /\ Unpositioned(ret.tokens[i].field)
       /\ Unpositioned(ret.tokens[j].field)
       /\ ret.tokens[i].field # ret.tokens[j].field

\* Each text with one space before it, one after the other.
RECURSIVE Spaced(_)
Spaced(texts) ==
  IF texts = << >> THEN << >>
  ELSE << " " >> \o Head(texts) \o Spaced(Tail(texts))

s_echo == << "e", "c", "h", "o" >>
s_foo == << "f", "o", "o" >>
s_echo_foo == << "e", "c", "h", "o", " ", "f", "o", "o" >>

JobKeys == << << "a" >>, << "b" >>, << "c" >>, << "d" >> >>
JobOrders == { << << "a" >>, << "c" >>, << "b" >>, << "d" >> >>,
               << << "d" >>, << "c" >>, << "b" >>, << "a" >> >> }

\* The keys of a dict in the order of their insertion: one key, two keys
\* in both orders, three keys.
JobKeySeqs ==
  { << JobKeys[1] >>, << JobKeys[1], JobKeys[2] >>,
    << JobKeys[2], JobKeys[1] >>, << JobKeys[1], JobKeys[2], JobKeys[3] >> }

\* The scalars of a job descriptor.
JobScalars == { PyInt(1), PyInt(2), PyString(s_x) }

\* The nodes built of the nodes of S: the lists of up to MaxJobLen copies
\* of a node, and the dicts of up to two keys mapping to any nodes and of
\* three keys mapping to one node.
JobLists(S) ==
  { JList([i \in 1..n |-> e]) : n \in 0..MaxJobLen, e \in S }
JobDicts(S) ==
  UNION { { JDict(keys, elems) : elems \in [1..Len(keys) -> S] } :
          keys \in {ks \in JobKeySeqs : Len(ks) <= 2} }
  \cup { JDict(keys, [i \in 1..Len(keys) |-> e]) :
         keys \in {ks \in JobKeySeqs : Len(ks) > 2}, e \in S }

\* The record arrays: up to MaxJobLen rows of the fields c and a.
JobTables ==
  { JTable(<< JobKeys[3], JobKeys[1] >>,
           [i \in 1..n |-> << PyInt(i), PyString(s_x) >>]) :
    n \in 0..MaxJobLen }

\* The object arrays: of a string and a number, and of a string and an
\* object array.
JobCells ==
  { JCell(<< PyString(s_x), PyInt(1) >>),
    JCell(<< PyString(s_x), JCell(<< PyInt(1) >>) >>) }

\* The descriptors without and with nodes nested in lists and dicts.
JobNodes1 ==
  {JNone} \cup {JLeaf(v) : v \in JobScalars} \cup JobTables \cup JobCells
  \cup JobLists({JLeaf(v) : v \in JobScalars})
  \cup JobDicts({JLeaf(PyInt(1)), JLeaf(PyInt(2))})
JobContents ==
  JobNodes1 \cup JobLists(JobNodes1) \cup JobDicts(JobNodes1)
  \cup {JLeaf(PyUnicode(s_x))}

\* The prefixes _generate_job is called with: its default and one of
\* _make_matlab_command.
JobPrefixes ==
  { << >>, << "j", "o", "b", "s", "{", "1", "}", ".", "t", "{", "1", "}" >> }

\* What _generate_job returns.
\* calls holds the prefixes of the calls it made of itself.
JobOutcome(jobstring, calls) ==
  [op |-> "job", exc |-> "", jobstring |-> jobstring, calls |-> calls]

\* An SPMCommand and the arguments of a call of _generate_job.
JobInit ==
  /\ class = "SPMCommand"
  /\ cmd = None
  /\ inputs = EmptyDict
  /\ files = NoFiles
  /\ job \in [prefix : JobPrefixes, contents : JobContents]
  /\ pc = "idle"
  /\ ret = NoRet
  /\ result = NoResult
  /\ peer = NoPeer

\* self._generate_job(prefix, contents)
GenerateJob(order) ==
  /\ pc = "idle"
  /\ ret' = JobOutcome(generate_job(job.prefix, job.contents, order),
                       job_calls(job.prefix, job.contents))
  /\ pc' = "returned"
  /\ UNCHANGED << class, cmd, inputs, files, job, peer, result >>

\* self._make_matlab_command([contents]) with use_mfile(mfile) before it.
MakeMatlabCommand(mfile, jc, order) ==
  /\ pc = "idle"
  /\ ret' = make_matlab_command(mfile, jc, job.contents, order)
  /\ pc' = "returned"
  /\ UNCHANGED << class, cmd, inputs, files, job, peer, result >>

JobNext ==
  \/ \E order \in JobOrders : GenerateJob(order)
  \/ \E mfile \in BOOLEAN : \E jc \in JobClasses :
       \E order \in JobOrders : MakeMatlabCommand(mfile, jc, order)
  \/ Continue

SpecJob == JobInit /\ [][JobNext]_vars

\* ------------------------------------------------ claims: _get_bunch_hash
\* _get_bunch_hash has returned a fingerprint.
Hashed == pc = "returned" /\ ret.op = "hash" /\ ret.exc = ""

\* The bunch with the path of field k replaced by q: the scalar path for
\* i = 0, element i of the list otherwise.
Repathed(bunch, k, i, q) ==
  [bunch EXCEPT ![k] =
     IF i = 0 THEN PyString(q)
     ELSE PyList([bunch[k].l EXCEPT ![i] = PyString(q)])]

\* The places (k, i) of the bunch that hold the path p: field k itself for
\* i = 0, element i of the list in field k otherwise.
PlacesOf(bunch, p) ==
  { << k, 0 >> : k \in {f \in DOMAIN bunch : bunch[f] = PyString(p)} }
  \cup UNION { { << k, i >> : i \in {j \in 1..Len(bunch[k].l) :
                                       bunch[k].l[j] = PyString(p)} } :
               k \in {f \in DOMAIN bunch : bunch[f].t = "list"} }

\* C11: replacing the path of an existing file, held by a field as a scalar
\* or as any element of a list, by a different path to a file with the same
\* bytes leaves the fingerprint of _get_bunch_hash unchanged.
C11_RenameInvariant ==
  Hashed =>
    \A p \in DOMAIN files : \A q \in DOMAIN files \ {p} :
      files[q] = files[p] =>
        \A place \in PlacesOf(inputs, p) : \A order \in BunchOrders :
          get_bunch_hash(Repathed(inputs, place[1], place[2], q),
                         files, order).hashvalue = ret.hashvalue

\* C12: two Bunches that differ only in the bytes of one existing file a
\* field refers to, as a scalar or as any element of a list, have different
\* fingerprints.
C12_ContentSensitive ==
  Hashed =>
    \A p \in DOMAIN files : \A data \in Bytes \ {files[p]} :
      PlacesOf(inputs, p) # {} =>
        \A order \in BunchOrders :
          get_bunch_hash(inputs, [files EXCEPT ![p] = data],
                         order).hashvalue # ret.hashvalue

\* C13: _get_bunch_hash raises and returns no fingerprint whenever a field
\* of the Bunch holds an empty list, whatever the other fields hold.
C13_EmptyFieldIsAnError ==
  (/\ pc = "returned"
   /\ ret.op = "hash"
   /\ \E k \in DOMAIN inputs : inputs[k] = PyList(<< >>))
  => /\ ret.exc = "AttributeError"
     /\ ret.hashvalue = << >>
     /\ ret.dict_withhash = << >>

\* An empty list next to a field that holds an existing file has been
\* hashed.
C13_Witness ==
  /\ pc = "returned"
  /\ ret.op = "hash"
  /\ inputs[s_files] = PyList(<< >>)
  /\ inputs[s_infile].s \in DOMAIN files
  /\ ret.exc = "AttributeError"

\* The elements of a value: those of a list, the value itself otherwise.
ElementsOf(v) == IF v.t = "list" THEN v.l ELSE << v >>

\* The field refers to an existing regular file, as a scalar path or as an
\* element of a list of paths.
FileBearing(v) ==
  \E i \in 1..Len(ElementsOf(v)) :
    /\ ElementsOf(v)[i].t = "str"
    /\ ElementsOf(v)[i].s \in DOMAIN files

\* The (path, digest) pair of a path: the digest of the bytes of an
\* existing file, None otherwise.
PathAndDigest(v) ==
  PyTuple(<< v, IF v.s \in DOMAIN files
                THEN PyString(md5hex(files[v.s])) ELSE None >>)

\* C14: the mapping _get_bunch_hash returns holds, for each file-bearing
\* field, the list of (path, digest) pairs of its elements in order, and
\* every other field at its original value.
C14_MappingHoldsPathsAndDigests ==
  Hashed =>
    \A k \in DOMAIN inputs :
      ret.dict_withhash[k] =
        IF FileBearing(inputs[k])
        THEN PyList([i \in 1..Len(ElementsOf(inputs[k])) |->
                       PathAndDigest(ElementsOf(inputs[k])[i])])
        ELSE inputs[k]

\* ------------------------------------------------- claims: _generate_job
\* _generate_job has returned.
Generated == pc = "returned" /\ ret.op = "job"

\* The literal of a scalar in a statement: quoted for a str.
Literal(v) ==
  IF v.t = "str" THEN << "'" >> \o v.s \o << "'" >> ELSE PyStr(v)

\* 'target = literal;'
Statement(target, v) == target \o << " ", "=", " " >> \o Literal(v) \o << ";" >>

\* The descriptor holds an object array.
RECURSIVE HasCell(_)
HasCell(node) ==
  \/ node.k = "cell"
  \/ /\ node.k \in {"list", "dict"}
     /\ \E i \in 1..Len(node.elems) : HasCell(node.elems[i])

\* The number of scalar leaves of a descriptor without object arrays.
RECURSIVE SumLeaves(_, _)
RECURSIVE LeafCount(_)
SumLeaves(elems, i) ==
  IF i > Len(elems) THEN 0 ELSE LeafCount(elems[i]) + SumLeaves(elems, i + 1)
LeafCount(node) ==
  CASE node.k = "leaf" -> 1
    [] node.k \in {"list", "dict"} -> SumLeaves(node.elems, 1)
    [] node.k = "table" -> Len(node.elems) * Len(node.keys)
    [] OTHER -> 0

\* The statements of the scalar leaves of a descriptor at a prefix: '.name'
\* for an entry of a record, '(i)' counted from 1 for element i of a
\* sequence or row i of a table.
RECURSIVE LeafStatements(_, _)
LeafStatements(node, prefix) ==
  CASE node.k = "leaf" -> { Statement(prefix, node.v) }
    [] node.k = "list" ->
         UNION { LeafStatements(node.elems[i],
                                prefix \o << "(" >> \o Dec(i) \o << ")" >>) :
                 i \in 1..Len(node.elems) }
    [] node.k = "dict" ->
         UNION { LeafStatements(node.elems[i],
                                prefix \o << "." >> \o node.keys[i]) :
                 i \in 1..Len(node.elems) }
    [] node.k = "table" ->
         { Statement(prefix \o << "(" >> \o Dec(i) \o << ")", "." >>
                       \o node.keys[f], node.elems[i][f]) :
           i \in 1..Len(node.elems), f \in 1..Len(node.keys) }
    [] OTHER -> {}

\* C15: _generate_job emits exactly one assignment statement, ended by a
\* semicolon, for each scalar leaf of the descriptor, its target being the
\* prefix followed by '.name' for each record entry and '(i+1)' for each
\* element i of a sequence or row i of a table on the way to the leaf.
C15_OneStatementPerLeaf ==
  (Generated /\ ~HasCell(job.contents)) =>
    /\ Len(ret.jobstring) = LeafCount(job.contents)
    /\ { ret.jobstring[i] : i \in 1..Len(ret.jobstring) }
         = LeafStatements(job.contents, job.prefix)

\* The example of the claim, {a: 1, b: {c: 2, d: 3}} up to the names, at a
\* prefix: a record holding a scalar and a record of two scalars, beside a
\* list of two records.
C15_Witness ==
  /\ Generated
  /\ job.prefix # << >>
  /\ job.contents.k = "dict"
  /\ Len(job.contents.elems) = 2
  /\ job.contents.elems[1].k = "leaf"
  /\ job.contents.elems[2].k = "dict"
  /\ Len(job.contents.elems[2].elems) = 2
  /\ Len(ret.jobstring) = 3

\* The statements in the declared order: the entries of a record in the
\* order of insertion of its keys, the elements of a sequence in order.
RECURSIVE InOrder(_, _)
RECURSIVE InOrderFrom(_, _, _)
InOrderFrom(node, prefix, i) ==
  IF i > Len(node.elems) THEN << >>
  ELSE InOrder(node.elems[i],
               IF node.k = "list"
               THEN prefix \o << "(" >> \o Dec(i) \o << ")" >>
               ELSE prefix \o << "." >> \o node.keys[i])
       \o InOrderFrom(node, prefix, i + 1)
InOrder(node, prefix) ==
  CASE node.k = "leaf" -> << Statement(prefix, node.v) >>
    [] node.k \in {"list", "dict"} -> InOrderFrom(node, prefix, 1)
    [] OTHER -> << >>

\* The descriptor holds a record array.
RECURSIVE HasTable(_)
HasTable(node) ==
  \/ node.k = "table"
  \/ /\ node.k \in {"list", "dict"}
     /\ \E i \in 1..Len(node.elems) : HasTable(node.elems[i])

\* C16: the statements of _generate_job appear in the declared order of the
\* descriptor: the entries of a record in the order in which its keys were
\* inserted, the elements of a sequence in element order.
C16_DeclaredOrder ==
  (Generated /\ ~HasCell(job.contents) /\ ~HasTable(job.contents)) =>
    ret.jobstring = InOrder(job.contents, job.prefix)

\* run has returned or raised after the child exited.
ChildExited == pc = "returned" /\ ret.op = "run" /\ ret.returncode >= 0

\* C17: CommandLine.run never raises because of the child's exit status:
\* for every return code it returns an InterfaceResult whose runtime carries
\* that return code together with the captured stdout and stderr, and
\* result.outputs is set exactly when the return code is 0 and is None
\* otherwise.
C17_ExitStatusNeverRaises ==
  ChildExited =>
    /\ ret.exc = ""
    /\ result.runtime.returncode = ret.returncode
    /\ result.runtime.stdout = ret.stdout
    /\ result.runtime.stderr = ret.stderr
    /\ result.outputs = (IF ret.returncode = 0 THEN "Bunch" ELSE "None")

C17_Witness ==
  /\ ChildExited
  /\ ret.returncode # 0
  /\ ret.stderr = PyString(<< "e", "r", "r" >>)
  /\ result.runtime.returncode = ret.returncode
  /\ result.outputs = "None"

\* The interface held by result: the caller's own object when no copy was
\* made of it.
ResultInterface ==
  IF result.interface.ref = "self"
  THEN [cmd |-> cmd, inputs |-> inputs]
  ELSE [cmd |-> result.interface.cmd, inputs |-> result.interface.inputs]

\* result.interface.cmdline, whatever the order of the dict.
ResultCmdlineIs(line) ==
  \A order \in HashOrders :
    LET c == cmdline(in_spec, ResultInterface.cmd, ResultInterface.inputs,
                     order)
    IN  c.exc = "" /\ c.line = line

\* The caller holds a result.
HoldsResult == result.interface.ref # "none"

\* C18: the InterfaceResult returned by run holds a deep copy of the
\* interface that is distinct from the original: its cmdline equals the
\* original's command line at the time of the run, and no assignment made
\* to the original's inputs after run returns changes
\* result.interface.inputs or result.interface.cmdline.
C18_ResultOwnsItsCopy ==
  /\ [](HoldsResult =>
          /\ result.interface.ref = "copy"
          /\ ResultCmdlineIs(result.runtime.cmdline))
  /\ [](ChildExited /\ ret.exc = "" =>
          /\ result.runtime.cmdline = ret.line
          /\ result.interface.inputs = inputs)
  /\ [][(HoldsResult /\ pc = "idle" /\ pc' = "idle") =>
          ResultInterface' = ResultInterface]_vars

C18_Witness ==
  /\ pc = "idle"
  /\ result.interface.ref = "copy"
  /\ result.interface.inputs # inputs
  /\ result.runtime.cmdline = << "e", "c", "h", "o", " ", "f", "o", "o" >>
  /\ result.runtime.returncode = 0

\* C19: the mandatory-field check counts a field as supplied exactly when
\* its value is defined: _check_mandatory_inputs does not fail when every
\* mandatory field holds a concrete value, including 0, False, an empty
\* string or an empty sequence.
C19_DefinedIsSupplied ==
  (ret.op = "check" /\ \A m \in mandatory_args(in_spec) : Defined(m)) =>
    ret.exc = "" /\ ret.missing = {}

\* The fields the last _parse_inputs call formatted: assigned, not skipped.
FormattedFields(skip) == {f \in DOMAIN inputs : f \notin skip /\ inputs[f] # None}

\* A bare-flag template given a value that is neither True nor False, or a
\* template whose substitution of the value fails.
FormatFails(f) ==
  IF ~StrContains(in_spec[f].argstr, << "%" >>)
  THEN inputs[f].t # "bool"
  ELSE format_option(in_spec[f].argstr, inputs[f]).exc # ""

\* The fields the last call warned about.
WarnedFields == {ret.warned[i] : i \in 1..Len(ret.warned)}

\* C20: _parse_inputs reports a format error for a field exactly when a
\* bare-flag template is given a value that is neither True nor False or
\* the substitution of the value into the template fails; the error is
\* non-fatal: only that field's token is omitted and the tokens of every
\* other field are produced as if the offending field were unset.
C20_FormatErrorsAreWarnings ==
  Parsed =>
    /\ WarnedFields = {f \in FormattedFields(ret.skip) : FormatFails(f)}
    /\ \A order \in HashOrders :
         ret.tokens =
           parse_inputs(in_spec, inputs, ret.skip \cup WarnedFields,
                        order).tokens

\* The repeatable fields with a position.
PositionedRepeatable ==
  {f \in DOMAIN in_spec :
     HasPosition(f) /\ EndsWith(in_spec[f].argstr, << ".", ".", "." >>)}

\* The indices of the tokens of field f in the returned sequence.
IndicesOf(f) == {i \in 1..Len(ret.tokens) : ret.tokens[i].field = f}

\* C21: a field's position applies to its whole token group: for a
\* repeatable field with a position and a value of n elements, all n tokens
\* appear in the sequence returned by _parse_inputs, in element order, at
\* the place given by that position (next to each other).
C21_PositionAppliesToGroup ==
  Parsed =>
    \A f \in PositionedRepeatable \ ret.skip :
      (Defined(f) /\ format_option(in_spec[f].argstr, inputs[f]).exc = "") =>
        /\ Texts(TokensOf(f)) = format_option(in_spec[f].argstr, inputs[f]).val
        /\ \A i, j \in IndicesOf(f) :
             \A k \in 1..Len(ret.tokens) : (i < k /\ k < j) => k \in IndicesOf(f)

\* The value is a string of Python 2: a str or a unicode.
IsString(v) == v.t \in {"str", "unicode"}

\* C22: for a scalar leaf, _generate_job emits the value in single quotes,
\* target = 'value'; whenever the leaf is a string, and the unquoted
\* stringified value, target = value; for every other scalar.
C22_StringsAreQuoted ==
  (Generated /\ job.contents.k = "leaf") =>
    ret.jobstring =
      << job.prefix \o << " ", "=", " " >>
         \o (IF IsString(job.contents.v)
             THEN << "'" >> \o job.contents.v.s \o << "'" >>
             ELSE PyStr(job.contents.v))
         \o << ";" >> >>

\* C23: in every run of _generate_job, for every descriptor shape (records,
\* sequences, tables, opaque object arrays and arrays nested inside them),
\* each recursive call below the root receives a non-empty dotted/indexed
\* prefix; only the root call may have an empty prefix.
C23_NestedPrefixNonEmpty ==
  Generated => \A prefix \in ret.calls : prefix # << >>

\* _make_matlab_command has returned or raised.
MadeScript == pc = "returned" /\ ret.op = "script"

\* The lines of a script between its first and its last.
Inner(script) == SubSeq(script, 2, Len(script) - 1)

\* C24: _make_matlab_command returns a script in both modes: with mfile true
\* the script contains the inline job assignments rooted at
\* jobs{1}.<jobtype>{1}.<jobname>, and with mfile false it saves the job
\* structure to pyjobs_<jobname>.mat and the script contains
\* 'load pyjobs_<jobname>;' with no inline job assignment; in both modes
\* the script ends by running the jobs through spm_jobman.
C24_ScriptInBothModes ==
  MadeScript =>
    /\ ret.exc = ""
    /\ ret.jobstring # << >>
    /\ ret.jobstring[Len(ret.jobstring)] = ScriptRun
    /\ ret.mfile =>
         /\ ret.saved = << >>
         /\ \E order \in JobOrders :
              Inner(ret.jobstring)
                = generate_job(job_root(ret.jc), job.contents, order)
    /\ ~ret.mfile =>
         /\ ret.saved = << "p", "y", "j", "o", "b", "s", "_" >> \o ret.jc.jobname \o << ".", "m", "a", "t" >>
         /\ Inner(ret.jobstring)
              = << << "l", "o", "a", "d", " ", "p", "y", "j", "o", "b", "s", "_" >> \o ret.jc.jobname \o << ";" >> >>

\* A step that is a whole call of run failing validation: the
\* missing-mandatory ValueError or the unknown-field KeyError.
RunFailsValidation ==
  /\ pc = "idle" /\ pc' = "returned"
  /\ ret'.op = "run"
  /\ ret'.exc \in {"ValueError", "KeyError"}

\* C25: when CommandLine.run(cwd, **inputs) fails validation, no side effect
\* has preceded the failure: the interface's stored inputs are the same as
\* before the call, so the extra key/value pairs passed to run are not left
\* applied.
C25_FailedRunLeavesInputs ==
  [][RunFailsValidation => inputs' = inputs]_vars

\* C26: two interface instances built from the same in_spec own independent
\* inputs: after any interleaving of assignments, updates, cmdline and run
\* calls on one instance, including in-place changes to a value that
\* instance holds, the other instance's inputs and command line and the
\* defaults recorded in in_spec are unchanged.
C26_InstancesAreIndependent ==
  [][ /\ peer'.inputs = peer.inputs
      /\ peer'.defaults = peer.defaults
      /\ \A order \in HashOrders :
           cmdline(in_spec, cmd, peer'.inputs, order)
             = cmdline(in_spec, cmd, peer.inputs, order) ]_vars

\* A step that is an assignment of an attribute on the inputs of a DataSink.
Assigns == pc = "idle" /\ pc' = "returned" /\ ret'.op = "setattr"

\* The declared fields of the inputs, the extension table apart.
DeclaredFields == DOMAIN inputs \ {s_outputs}

CopiesBunch ==
  pc = "idle" /\ pc' = "returned" /\ ret'.op \in {"dictcopy", "hash"}

\* C28: dictcopy and _get_bunch_hash leave the Bunch unchanged, whether
\* _get_bunch_hash returns or raises: they work on an independent deep copy
\* returned as a plain dict, so the Bunch's items are the same afterwards
\* and later changes to the returned dict, including in-place changes to
\* nested values, do not change the Bunch.
C28_CopyIsIndependent ==
  [][ /\ CopiesBunch =>
           /\ inputs' = inputs
           /\ ret'.op = "dictcopy" => ret'.dict_withhash = inputs
      /\ (pc = "returned" /\ pc' = "returned") => inputs' = inputs ]_vars

\* A list of the dict _get_bunch_hash returned has been changed in place,
\* beside a field that was hashed.
C28_Witness ==
  /\ pc = "returned" /\ ret.op = "held"
  /\ \E k \in DOMAIN inputs :
       /\ inputs[k].t = "list"
       /\ ret.dict_withhash[k].t = "list"
       /\ Len(ret.dict_withhash[k].l) = Len(inputs[k].l) + 1
  /\ \E k \in DOMAIN inputs :
       inputs[k].t = "str" /\ ret.dict_withhash[k].t # "str"

\* The tokens the formatting of field f produced: none when it raised or
\* appended nothing.
Produced(f) ==
  IF format_option(in_spec[f].argstr, inputs[f]).exc # ""
     \/ format_option(in_spec[f].argstr, inputs[f]).isnone
  THEN << >>
  ELSE format_option(in_spec[f].argstr, inputs[f]).val

\* C29: no token is lost in placement: for any in_spec and inputs, every
\* defined, non-skipped field whose formatting yields a token has that token
\* present in the sequence returned by _parse_inputs, so the number of
\* tokens returned equals the number produced by formatting, also when two
\* defined fields carry the same position.
C29_NoTokenLost ==
  Parsed =>
    \A f \in FormattedFields(ret.skip) :
      Texts(TokensOf(f)) = Produced(f)

\* The places (k, i) of the bunch that hold a path to no existing file:
\* field k itself for i = 0, element i of the list in field k otherwise.
MissingPlaces(bunch) ==
  { << k, 0 >> : k \in {f \in DOMAIN bunch :
                          bunch[f].t = "str" /\ bunch[f].s \notin DOMAIN files} }
  \cup UNION { { << k, i >> : i \in {j \in 1..Len(bunch[k].l) :
                                       /\ bunch[k].l[j].t = "str"
                                       /\ bunch[k].l[j].s \notin DOMAIN files} } :
               k \in {f \in DOMAIN bunch : bunch[f].t = "list"} }

\* The value at a place of the bunch.
AtPlace(bunch, place) ==
  IF place[2] = 0 THEN bunch[place[1]] ELSE bunch[place[1]].l[place[2]]

\* The values that hold no path: neither strings nor containers.
Plain(v) == v.t \in {"none", "bool", "int"}

\* C30: the fingerprint separates every difference that is not a rename of
\* an existing file: two Bunches with the same field names whose values
\* differ in some element that is not an existing regular file (a non-file
\* value, or a path that does not exist) get different fingerprints from
\* _get_bunch_hash, the digest being collision-free.
C30_NonFileDifferencesSeparate ==
  Hashed =>
    \A order \in BunchOrders :
      /\ \A place \in MissingPlaces(inputs) :
           \A q \in Paths \ DOMAIN files :
             ( /\ PyString(q) # AtPlace(inputs, place)
               /\ get_bunch_hash(Repathed(inputs, place[1], place[2], q),
                                 files, order).exc = "" )
             => get_bunch_hash(Repathed(inputs, place[1], place[2], q),
                               files, order).hashvalue # ret.hashvalue
      /\ \A k \in DOMAIN inputs : \A w \in BunchCandidates[k] :
           (Plain(inputs[k]) /\ Plain(w) /\ w # inputs[k])
             => get_bunch_hash([inputs EXCEPT ![k] = w], files,
                               order).hashvalue # ret.hashvalue

=============================================================================
